---- MODULE Spec2Model ----
(***************************************************************************)
(* Model of the FPGA inference firmware: the bounded queue (queue.hpp),    *)
(* the simulated accelerator driver (accelerator.hpp, config_struct.hpp),  *)
(* the engine thread and the shell loop of main (inference_engine.cpp).    *)
(*                                                                         *)
(* Two threads run: the shell (main) pushes tasks and commands, the engine *)
(* pops them.  Each queue call is one atomic step; every other step of the *)
(* engine is local to the engine thread and is split where the fields of   *)
(* EngineState are assigned one after the other.                           *)
(***************************************************************************)
EXTENDS Integers, Sequences, FiniteSets, TLC

VARIABLES
    commandQueue,   \* Queue<Command, 10>  (inference_engine.cpp:17)
    taskQueue,      \* Queue<Task, 100>    (inference_engine.cpp:16)
    state,          \* EngineState of the engine thread
    accel,          \* the Accelerator object of the engine thread
    pc,             \* position of the engine thread
    task,           \* the engine's local Task (line 143)
    cmd,            \* runGeneration's local Command (line 74) and what tryPop returned
    token_count,    \* local of runGeneration (line 69)
    trace,          \* what sendOutputToUI printed and which driver calls ran
    shell_pc,       \* position of main's input loop
    nextTaskId,     \* local of main (line 251)
    warnings,       \* number of "Task queue full" warnings pushTask printed
    lines,          \* number of input lines main has handled
    stopMark,       \* history: length of trace when a Stop was enqueued during the
                    \* running generation loop, -1 when none was
    unit            \* the object a component specification exercises on its own (a
                    \* Queue, an Accelerator, a ConfigIn) with the calls made on it;
                    \* NoUnit in the specification of the whole program

vars == <<commandQueue, taskQueue, state, accel, pc, task, cmd, token_count,
          trace, shell_pc, nextTaskId, warnings, lines, stopMark, unit>>

-----------------------------------------------------------------------------
(* Bounds of the model *)

\* capacity the command queue template is instantiated with in the model
CmdCapacity == 2

\* capacity the task queue template is instantiated with in the model
TaskCapacity == 2

\* number of input lines the shell reads before stdin stays silent
MaxLines == 4

\* number of entries of the simulated KV cache vector
KvSize == 2

\* number of entries of the simulated input buffer vector
InputSize == 2

\* capacity of the queue exercised on its own
QueueCapacity == 3

\* number of push calls made on the queue exercised on its own
QueueCalls == 8

\* capacity of the queue shared by the two threads of the interleaving model
RaceCapacity == 2

\* number of push calls the Shell thread makes in the interleaving model
RaceCalls == 3

\* largest tokens_generated the status registers report in the driver model
DeviceTokens == 2

\* number of values a 32-bit word takes in the model of ConfigIn: a word holds
\* 0..WordModulus-1 and a 64-bit field, two words wide, 0..WordModulus^2-1
WordModulus == 4

(* Program constants *)

MAX_TOKENS == 50

\* 0xFFFFFFFF; 32-bit words are written as TLC's 32-bit integers, so the word
\* with all bits set reads -1
EOS_TOKEN == -1

\* the prompts a user may type (already tokenized: one token per character)
Prompts == { <<104, 105>>, <<104, 105, 33>> }

-----------------------------------------------------------------------------
(* types.hpp *)

Task(id, prompt) == [id |-> id, prompt |-> prompt]

DefaultTask == Task(0, <<>>)

Command(type) == [type |-> type]

DefaultCommand == Command("STOP_CURRENT")

EngineState == [status |-> "IDLE", currentTaskId |-> -1,
                cancelCurrent |-> FALSE, resetRequested |-> FALSE]

-----------------------------------------------------------------------------
(* queue.hpp: Queue<T, MAX_SIZE>; each call is taken as one atomic step *)

Queue(MAX_SIZE, dflt) ==
    [buffer |-> [i \in 0..(MAX_SIZE - 1) |-> dflt], head |-> 0, tail |-> 0, count |-> 0]

full(q, MAX_SIZE) == q.count >= MAX_SIZE

empty(q) == q.count = 0

\* the value push returns
pushOk(q, MAX_SIZE) == ~(q.count >= MAX_SIZE)

\* mutant: a push on a full queue overwrites the oldest item instead of
\* returning false
push_Overwrite(q, MAX_SIZE, item) ==
    IF q.count >= MAX_SIZE
    THEN [q EXCEPT !.buffer[q.tail] = item,
                   !.tail = (q.tail + 1) % MAX_SIZE,
                   !.head = (q.head + 1) % MAX_SIZE]
    ELSE [q EXCEPT !.buffer[q.tail] = item,
                   !.tail = (q.tail + 1) % MAX_SIZE,
                   !.count = q.count + 1]

\* mutant: tail is advanced without the modulo of line 25
push_NoWrap(q, MAX_SIZE, item) ==
    IF q.count >= MAX_SIZE
    THEN q
    ELSE [q EXCEPT !.buffer[q.tail] = item,
                   !.tail = q.tail + 1,
                   !.count = q.count + 1]

\* the queue after push(item)
push(q, MAX_SIZE, item) ==
    IF q.count >= MAX_SIZE
    THEN q
    ELSE [q EXCEPT !.buffer[q.tail] = item,
                   !.tail = (q.tail + 1) % MAX_SIZE,
                   !.count = q.count + 1]

\* the value pop / tryPop returns
popOk(q) == ~(q.count = 0)

\* mutant: pop reads the slot at tail instead of the slot at head
popItem_AtTail(q) == q.buffer[q.tail]

\* the item pop / tryPop stores in its out-parameter when it succeeds
popItem(q) == q.buffer[q.head]

\* the queue after pop / tryPop
pop(q, MAX_SIZE) ==
    IF q.count = 0
    THEN q
    ELSE [q EXCEPT !.head = (q.head + 1) % MAX_SIZE,
                   !.count = q.count - 1]

tryPop(q, MAX_SIZE) == pop(q, MAX_SIZE)

\* the items a queue holds, oldest first
Contents(q, MAX_SIZE) ==
    [i \in 1..q.count |-> q.buffer[(q.head + i - 1) % MAX_SIZE]]

-----------------------------------------------------------------------------
(* config_struct.hpp: StatusOut *)

StatusOut == [current_token |-> 0, tokens_generated |-> 0, error_code |-> 0, flags |-> 0]

isValid(s) == (s.flags % 2) # 0

isDone(s) == ((s.flags \div 2) % 2) # 0

unpack(words) ==
    [current_token |-> words[0], tokens_generated |-> words[1],
     error_code |-> words[2], flags |-> words[3]]

\* pack_to_words has an empty body: the status words are left as they are
pack_to_words(a) == a

-----------------------------------------------------------------------------
(* accelerator.hpp: the simulated driver *)

Accelerator ==
    [config |-> [input_buffer_addr |-> 0, output_buffer_addr |-> 0, kv_cache_addr |-> 0,
                 stride |-> 0, max_tokens |-> 0, prompt_length |-> 0,
                 task_id |-> 0, task_type |-> 0],
     status |-> StatusOut,
     status_words |-> [i \in 0..3 |-> 0],
     input_buffer |-> [i \in 0..(InputSize - 1) |-> 0],
     kv_cache |-> [i \in 0..(KvSize - 1) |-> 0],
     token_counter |-> 0,
     ap_ctrl |-> 0,
     irq_clear |-> 0]

\* readReg of a status word or of the status control register
readStatusWord(a, i) == a.status_words[i]

readStatusCtrl == 1

configure(a, input_addr, output_addr, kv_cache_addr, stride, max_tokens) ==
    [a EXCEPT !.config.input_buffer_addr = input_addr,
              !.config.output_buffer_addr = output_addr,
              !.config.kv_cache_addr = kv_cache_addr,
              !.config.stride = stride,
              !.config.max_tokens = max_tokens]

setTaskConfig(a, task_id, prompt_len) ==
    [a EXCEPT !.config.task_id = task_id,
              !.config.prompt_length = prompt_len,
              !.config.task_type = 0]

startInference(a, task_id, tokens) ==
    LET a1 == setTaskConfig(a, task_id, Len(tokens))
        a2 == [a1 EXCEPT !.input_buffer =
                   [i \in 0..(InputSize - 1) |->
                       IF i < Len(tokens) THEN tokens[i + 1] ELSE a1.input_buffer[i]],
                         !.ap_ctrl = 1,
                         !.status.tokens_generated = 0,
                         !.status.flags = 1]
    IN pack_to_words(a2)

readStatus(a) ==
    IF (readStatusCtrl % 2) = 0
    THEN a
    ELSE LET words == [i \in 0..3 |-> readStatusWord(a, i)]
         IN [a EXCEPT !.status_words = words, !.status = unpack(words)]

\* getNextToken: [ok |-> the value returned, token |-> the out-parameter, accel |-> the driver after the call]
getNextToken(a) ==
    LET a1 == readStatus(a)
    IN IF isValid(a1.status) /\ ~isDone(a1.status)
       THEN IF a1.token_counter > 10
            THEN [ok |-> TRUE, token |-> EOS_TOKEN,
                  accel |-> pack_to_words(
                      [a1 EXCEPT !.status.flags = a1.status.flags + 2,
                                 !.token_counter = 0,
                                 !.status.current_token = EOS_TOKEN])]
            ELSE [ok |-> TRUE, token |-> 100 + a1.token_counter + 1,
                  accel |-> pack_to_words(
                      [a1 EXCEPT !.token_counter = a1.token_counter + 1,
                                 !.status.tokens_generated = a1.status.tokens_generated + 1,
                                 !.status.current_token = 100 + a1.token_counter + 1])]
       ELSE [ok |-> FALSE, token |-> 0, accel |-> a1]

\* mutant: the write of 0 to AP_CTRL (line 181) is left out
reset_KeepsApCtrl(a) ==
    [a EXCEPT !.irq_clear = -1,
              !.kv_cache = [i \in 0..(KvSize - 1) |-> 0]]

reset(a) ==
    [a EXCEPT !.irq_clear = -1,
              !.ap_ctrl = 0,
              !.kv_cache = [i \in 0..(KvSize - 1) |-> 0]]

-----------------------------------------------------------------------------
(* inference_engine.cpp: helpers *)

Ev(ev, arg) == [ev |-> ev, arg |-> arg]

\* sendOutputToUI of one of the status markers
sendOutputToUI(tr, marker) == Append(tr, Ev(marker, 0))

\* sendOutputToUI(detokenize(token))
sendToken(tr, token) == Append(tr, Ev("token", token))

\* clearKvCache: the one place the engine calls accel.reset()
clearKvCacheTrace(tr) == Append(tr, Ev("reset", 0))

clearKvCache(a) == reset(a)

\* mutant: the break of line 46 is missing, SHUTDOWN falls through into RESET
handleTopLevelCommand_NoBreak(c, st, a, tr) ==
    CASE c.type = "SHUTDOWN" ->
            [state |-> [st EXCEPT !.status = "SHUTTING_DOWN"], accel |-> clearKvCache(a),
             trace |-> sendOutputToUI(clearKvCacheTrace(tr), "MemoryCleared")]
      [] c.type = "RESET" ->
            [state |-> st, accel |-> clearKvCache(a),
             trace |-> sendOutputToUI(clearKvCacheTrace(tr), "MemoryCleared")]
      [] OTHER ->
            [state |-> st, accel |-> a, trace |-> tr]

\* handleTopLevelCommand: the engine state, driver and output after a command popped in IDLE
handleTopLevelCommand(c, st, a, tr) ==
    CASE c.type = "SHUTDOWN" ->
            [state |-> [st EXCEPT !.status = "SHUTTING_DOWN"], accel |-> a, trace |-> tr]
      [] c.type = "RESET" ->
            [state |-> st, accel |-> clearKvCache(a),
             trace |-> sendOutputToUI(clearKvCacheTrace(tr), "MemoryCleared")]
      [] OTHER ->
            [state |-> st, accel |-> a, trace |-> tr]

\* mutant: the SHUTDOWN case falls out of the switch instead of returning
genCommand_FallThrough(c, st, tr) ==
    CASE c.type = "SHUTDOWN" ->
            [state |-> [st EXCEPT !.cancelCurrent = TRUE, !.status = "SHUTTING_DOWN"],
             trace |-> sendOutputToUI(tr, "AbortedShutdown"), ret |-> FALSE]
      [] c.type = "RESET" ->
            [state |-> [st EXCEPT !.cancelCurrent = TRUE, !.resetRequested = TRUE],
             trace |-> tr, ret |-> FALSE]
      [] OTHER ->
            [state |-> [st EXCEPT !.cancelCurrent = TRUE], trace |-> tr, ret |-> FALSE]

\* mutant: the STOP_CURRENT case does not set cancelCurrent
genCommand_StopIgnored(c, st, tr) ==
    CASE c.type = "SHUTDOWN" ->
            [state |-> [st EXCEPT !.cancelCurrent = TRUE, !.status = "SHUTTING_DOWN"],
             trace |-> sendOutputToUI(tr, "AbortedShutdown"), ret |-> TRUE]
      [] c.type = "RESET" ->
            [state |-> [st EXCEPT !.cancelCurrent = TRUE, !.resetRequested = TRUE],
             trace |-> tr, ret |-> FALSE]
      [] OTHER ->
            [state |-> st, trace |-> tr, ret |-> FALSE]

\* runGeneration lines 76-91: the switch on a command popped inside the loop;
\* ret says whether runGeneration returns from inside the switch
genCommand(c, st, tr) ==
    CASE c.type = "SHUTDOWN" ->
            [state |-> [st EXCEPT !.cancelCurrent = TRUE, !.status = "SHUTTING_DOWN"],
             trace |-> sendOutputToUI(tr, "AbortedShutdown"), ret |-> TRUE]
      [] c.type = "RESET" ->
            [state |-> [st EXCEPT !.cancelCurrent = TRUE, !.resetRequested = TRUE],
             trace |-> tr, ret |-> FALSE]
      [] OTHER ->
            [state |-> [st EXCEPT !.cancelCurrent = TRUE], trace |-> tr, ret |-> FALSE]

\* mutant: the abort notice of line 95 is left out
genCancel_Silent(st, a, tr) ==
    IF st.cancelCurrent
    THEN IF st.resetRequested
         THEN [state |-> [st EXCEPT !.resetRequested = FALSE],
               accel |-> clearKvCache(a),
               trace |-> sendOutputToUI(clearKvCacheTrace(tr), "MemoryCleared"),
               ret |-> TRUE]
         ELSE [state |-> st, accel |-> a, trace |-> tr, ret |-> TRUE]
    ELSE [state |-> st, accel |-> a, trace |-> tr, ret |-> FALSE]

\* mutant: the KV cache is cleared on every cancellation, reset requested or not
genCancel_AlwaysReset(st, a, tr) ==
    IF st.cancelCurrent
    THEN [state |-> [st EXCEPT !.resetRequested = FALSE],
          accel |-> clearKvCache(a),
          trace |-> sendOutputToUI(
                       clearKvCacheTrace(sendOutputToUI(tr, "Aborted")), "MemoryCleared"),
          ret |-> TRUE]
    ELSE [state |-> st, accel |-> a, trace |-> tr, ret |-> FALSE]

\* mutant: [Memory cleared] is printed before the cache is cleared
genCancel_NoticeFirst(st, a, tr) ==
    IF st.cancelCurrent
    THEN IF st.resetRequested
         THEN [state |-> [st EXCEPT !.resetRequested = FALSE],
               accel |-> clearKvCache(a),
               trace |-> clearKvCacheTrace(
                            sendOutputToUI(sendOutputToUI(tr, "Aborted"), "MemoryCleared")),
               ret |-> TRUE]
         ELSE [state |-> st, accel |-> a, trace |-> sendOutputToUI(tr, "Aborted"),
               ret |-> TRUE]
    ELSE [state |-> st, accel |-> a, trace |-> tr, ret |-> FALSE]

\* runGeneration lines 94-103: the cancellation check
genCancel(st, a, tr) ==
    IF st.cancelCurrent
    THEN IF st.resetRequested
         THEN [state |-> [st EXCEPT !.resetRequested = FALSE],
               accel |-> clearKvCache(a),
               trace |-> sendOutputToUI(
                            clearKvCacheTrace(sendOutputToUI(tr, "Aborted")), "MemoryCleared"),
               ret |-> TRUE]
         ELSE [state |-> st, accel |-> a, trace |-> sendOutputToUI(tr, "Aborted"),
               ret |-> TRUE]
    ELSE [state |-> st, accel |-> a, trace |-> tr, ret |-> FALSE]

\* runGeneration lines 105-114: what is done with the result r of getNextToken
genToken(r, tr, tc) ==
    IF r.ok
    THEN IF r.token = EOS_TOKEN
         THEN [trace |-> sendOutputToUI(tr, "EOS"), token_count |-> tc, ret |-> TRUE]
         ELSE [trace |-> sendToken(tr, r.token), token_count |-> tc + 1, ret |-> FALSE]
    ELSE [trace |-> tr, token_count |-> tc, ret |-> FALSE]

-----------------------------------------------------------------------------------------------------------------------------------------------------
(* State after construction: both global queues empty, the engine thread    *)
(* created (line 249) with its EngineState and Accelerator constructed.     *)

\* no component is exercised on its own
NoUnit == [kind |-> "none"]

\* runGeneration's local cmd before tryPop has stored anything in it (line 74)
NoCommand == [popped |-> FALSE, type |-> "STOP_CURRENT"]

\* the positions of the engine thread inside the while loop of runGeneration
LoopPcs == {"gen_loop", "gen_cmd", "gen_cancel", "gen_token"}

ProgramInit ==
    /\ commandQueue = Queue(CmdCapacity, DefaultCommand)
    /\ taskQueue = Queue(TaskCapacity, DefaultTask)
    /\ state = EngineState
    /\ accel = Accelerator
    /\ pc = "start"
    /\ task = DefaultTask
    /\ cmd = NoCommand
    /\ token_count = 0
    /\ trace = <<>>
    /\ shell_pc = "read"
    /\ nextTaskId = 1
    /\ warnings = 0
    /\ lines = 0
    /\ stopMark = -1

Init == ProgramInit /\ unit = NoUnit

\* every variable of the program; a component specification leaves them alone
programVars == <<commandQueue, taskQueue, state, accel, pc, task, cmd, token_count,
                 trace, shell_pc, nextTaskId, warnings, lines, stopMark>>

shellVars == <<shell_pc, nextTaskId, warnings, lines, stopMark>>

engineVars == <<state, accel, pc, task, cmd, token_count, trace>>

-----------------------------------------------------------------------------
(* inferenceEngineThread *)

\* lines 126-130: accel.configure
EngineStart ==
    /\ pc = "start"
    /\ accel' = configure(accel, 268435456, 536870912, 805306368, 128, 2048)
    /\ pc' = "loop"
    /\ UNCHANGED <<commandQueue, taskQueue, state, task, cmd, token_count, trace, shellVars, unit>>

\* lines 134-135 and 157-159: the tests of the main loop
EngineLoop ==
    /\ pc = "loop"
    /\ pc' = IF state.status = "SHUTTING_DOWN" THEN "exit"
             ELSE IF state.status = "IDLE" THEN "top_cmd"
             ELSE "loop"
    /\ UNCHANGED <<commandQueue, taskQueue, state, accel, task, cmd, token_count, trace, shellVars, unit>>

\* mutant: the continue of line 140 is left out, so the task queue is polled
\* in the iteration that handled a command
EngineTopCommand_NoContinue ==
    /\ pc = "top_cmd"
    /\ IF popOk(commandQueue)
       THEN LET r == handleTopLevelCommand(popItem(commandQueue), state, accel, trace)
            IN /\ commandQueue' = tryPop(commandQueue, CmdCapacity)
               /\ state' = r.state
               /\ accel' = r.accel
               /\ trace' = r.trace
               /\ pc' = "top_task"
       ELSE /\ pc' = "top_task"
            /\ UNCHANGED <<commandQueue, state, accel, trace>>
    /\ UNCHANGED <<taskQueue, task, cmd, token_count, shellVars, unit>>

\* lines 137-141: commandQueue.tryPop at top level
EngineTopCommand ==
    /\ pc = "top_cmd"
    /\ IF popOk(commandQueue)
       THEN LET r == handleTopLevelCommand(popItem(commandQueue), state, accel, trace)
            IN /\ commandQueue' = tryPop(commandQueue, CmdCapacity)
               /\ state' = r.state
               /\ accel' = r.accel
               /\ trace' = r.trace
               /\ pc' = "loop"
       ELSE /\ pc' = "top_task"
            /\ UNCHANGED <<commandQueue, state, accel, trace>>
    /\ UNCHANGED <<taskQueue, task, cmd, token_count, shellVars, unit>>

\* lines 143-144 and 154-156: taskQueue.tryPop
EngineTopTask ==
    /\ pc = "top_task"
    /\ IF popOk(taskQueue)
       THEN /\ task' = popItem(taskQueue)
            /\ taskQueue' = tryPop(taskQueue, TaskCapacity)
            /\ pc' = "set_id"
       ELSE /\ pc' = "loop"
            /\ UNCHANGED <<taskQueue, task>>
    /\ UNCHANGED <<commandQueue, state, accel, cmd, token_count, trace, shellVars, unit>>

\* mutant: line 145 left out
setCurrentTask_Missing(st, t) == st

\* line 145
setCurrentTask(st, t) == [st EXCEPT !.currentTaskId = t.id]

EngineSetTaskId ==
    /\ pc = "set_id"
    /\ state' = setCurrentTask(state, task)
    /\ pc' = "set_gen"
    /\ UNCHANGED <<commandQueue, taskQueue, accel, task, cmd, token_count, trace, shellVars, unit>>

\* line 146
EngineSetGenerating ==
    /\ pc = "set_gen"
    /\ state' = [state EXCEPT !.status = "GENERATING"]
    /\ pc' = "gen_init"
    /\ UNCHANGED <<commandQueue, taskQueue, accel, task, cmd, token_count, trace, shellVars, unit>>

\* runGeneration lines 60-70
GenInit ==
    /\ pc = "gen_init"
    /\ state' = [state EXCEPT !.cancelCurrent = FALSE, !.resetRequested = FALSE]
    /\ trace' = Append(sendOutputToUI(trace, "Generating"), Ev("start", task.id))
    /\ accel' = startInference(accel, task.id, task.prompt)
    /\ token_count' = 0
    /\ pc' = "gen_loop"
    /\ UNCHANGED <<commandQueue, taskQueue, task, cmd, shellVars, unit>>

\* mutant: the loop body asks for the next token before it polls the command queue
GenLoop_TokenFirst ==
    /\ pc = "gen_loop"
    /\ IF token_count < MAX_TOKENS
       THEN /\ pc' = "gen_token"
            /\ UNCHANGED trace
       ELSE /\ trace' = sendOutputToUI(trace, "MaxTokens")
            /\ pc' = "gen_ret"
    /\ UNCHANGED <<commandQueue, taskQueue, state, accel, task, cmd, token_count, shellVars, unit>>

\* mutant: the loop test is token_count <= MAX_TOKENS
GenLoop_OneMore ==
    /\ pc = "gen_loop"
    /\ IF token_count <= MAX_TOKENS
       THEN /\ pc' = "gen_cmd"
            /\ UNCHANGED trace
       ELSE /\ trace' = sendOutputToUI(trace, "MaxTokens")
            /\ pc' = "gen_ret"
    /\ UNCHANGED <<commandQueue, taskQueue, state, accel, task, cmd, token_count, shellVars, unit>>

\* runGeneration line 72, and line 119 when the loop is left
GenLoop ==
    /\ pc = "gen_loop"
    /\ IF token_count < MAX_TOKENS
       THEN /\ pc' = "gen_cmd"
            /\ UNCHANGED trace
       ELSE /\ trace' = sendOutputToUI(trace, "MaxTokens")
            /\ pc' = "gen_ret"
    /\ UNCHANGED <<commandQueue, taskQueue, state, accel, task, cmd, token_count, shellVars, unit>>

\* runGeneration lines 74-92: commandQueue.tryPop inside the loop
GenPollCommand ==
    /\ pc = "gen_cmd"
    /\ IF popOk(commandQueue)
       THEN LET r == genCommand(popItem(commandQueue), state, trace)
            IN /\ commandQueue' = tryPop(commandQueue, CmdCapacity)
               /\ cmd' = [popped |-> TRUE, type |-> popItem(commandQueue).type]
               /\ state' = r.state
               /\ trace' = r.trace
               /\ pc' = IF r.ret THEN "gen_ret" ELSE "gen_cancel"
       ELSE /\ pc' = "gen_cancel"
            /\ cmd' = NoCommand
            /\ UNCHANGED <<commandQueue, state, trace>>
    /\ UNCHANGED <<taskQueue, accel, task, token_count, shellVars, unit>>

\* runGeneration lines 94-103
GenCheckCancel ==
    /\ pc = "gen_cancel"
    /\ LET r == genCancel(state, accel, trace)
       IN /\ state' = r.state
          /\ accel' = r.accel
          /\ trace' = r.trace
          /\ pc' = IF r.ret THEN "gen_ret" ELSE "gen_token"
    /\ UNCHANGED <<commandQueue, taskQueue, task, cmd, token_count, shellVars, unit>>

\* runGeneration lines 105-116: accel.getNextToken, then the sleep
GenNextToken ==
    /\ pc = "gen_token"
    /\ LET r == getNextToken(accel)
           g == genToken(r, trace, token_count)
       IN /\ accel' = r.accel
          /\ trace' = g.trace
          /\ token_count' = g.token_count
          /\ pc' = IF g.ret THEN "gen_ret" ELSE "gen_loop"
    /\ UNCHANGED <<commandQueue, taskQueue, state, task, cmd, shellVars, unit>>

\* mutant: status is set back to IDLE without the test of line 150
EngineGenReturn_Unconditional ==
    /\ pc = "gen_ret"
    /\ state' = [state EXCEPT !.status = "IDLE"]
    /\ pc' = "clear_id"
    /\ token_count' = 0
    /\ stopMark' = -1
    /\ UNCHANGED <<commandQueue, taskQueue, accel, task, cmd, trace,
                   shell_pc, nextTaskId, warnings, lines, unit>>

\* lines 150-151: back in inferenceEngineThread after runGeneration returned
EngineGenReturn ==
    /\ pc = "gen_ret"
    /\ IF state.status = "GENERATING"
       THEN /\ state' = [state EXCEPT !.status = "IDLE"]
            /\ pc' = "clear_id"
       ELSE /\ pc' = "loop"
            /\ UNCHANGED state
    /\ token_count' = 0
    /\ stopMark' = -1
    /\ UNCHANGED <<commandQueue, taskQueue, accel, task, cmd, trace,
                   shell_pc, nextTaskId, warnings, lines, unit>>

\* line 152; the locals of the finished loop iteration are gone
EngineClearTaskId ==
    /\ pc = "clear_id"
    /\ state' = [state EXCEPT !.currentTaskId = -1]
    /\ task' = DefaultTask
    /\ cmd' = NoCommand
    /\ pc' = "loop"
    /\ UNCHANGED <<commandQueue, taskQueue, accel, token_count, trace, shellVars, unit>>

\* lines 162-164: after the main loop
EngineExit ==
    /\ pc = "exit"
    /\ accel' = clearKvCache(accel)
    /\ trace' = clearKvCacheTrace(trace)
    /\ pc' = "done"
    /\ UNCHANGED <<commandQueue, taskQueue, state, task, cmd, token_count, shellVars, unit>>

Engine ==
    \/ EngineStart \/ EngineLoop \/ EngineTopCommand \/ EngineTopTask
    \/ EngineSetTaskId \/ EngineSetGenerating
    \/ GenInit \/ GenLoop \/ GenPollCommand \/ GenCheckCancel \/ GenNextToken
    \/ EngineGenReturn \/ EngineClearTaskId \/ EngineExit

-----------------------------------------------------------------------------
(* main: the input loop, lines 256-277 *)

\* lines 166-172: pushTask
pushTask(q, t) == IF full(q, TaskCapacity) THEN q ELSE push(q, TaskCapacity, t)

\* lines 264-266: "/quit"
ShellQuit ==
    /\ shell_pc = "read"
    /\ lines < MaxLines
    /\ commandQueue' = push(commandQueue, CmdCapacity, Command("SHUTDOWN"))
    /\ shell_pc' = "join"
    /\ lines' = lines + 1
    /\ UNCHANGED <<taskQueue, nextTaskId, warnings, stopMark, engineVars, unit>>

\* lines 267-268: "/stop"
ShellStop ==
    /\ shell_pc = "read"
    /\ lines < MaxLines
    /\ commandQueue' = push(commandQueue, CmdCapacity, Command("STOP_CURRENT"))
    /\ stopMark' = IF pc \in LoopPcs /\ pushOk(commandQueue, CmdCapacity) /\ stopMark = -1
                   THEN Len(trace)
                   ELSE stopMark
    /\ lines' = lines + 1
    /\ UNCHANGED <<taskQueue, shell_pc, nextTaskId, warnings, engineVars, unit>>

\* lines 269-270: "/reset"
ShellReset ==
    /\ shell_pc = "read"
    /\ lines < MaxLines
    /\ commandQueue' = push(commandQueue, CmdCapacity, Command("RESET"))
    /\ lines' = lines + 1
    /\ UNCHANGED <<taskQueue, shell_pc, nextTaskId, warnings, stopMark, engineVars, unit>>

\* lines 271-274: any other non-empty line
ShellPrompt ==
    /\ shell_pc = "read"
    /\ lines < MaxLines
    /\ \E p \in Prompts :
          taskQueue' = pushTask(taskQueue, Task(nextTaskId, p))
    /\ warnings' = IF full(taskQueue, TaskCapacity) THEN warnings + 1 ELSE warnings
    /\ nextTaskId' = nextTaskId + 1
    /\ lines' = lines + 1
    /\ UNCHANGED <<commandQueue, shell_pc, stopMark, engineVars, unit>>

\* line 277: engineThread.join() returns once the engine thread has ended
ShellJoin ==
    /\ shell_pc = "join"
    /\ pc = "done"
    /\ shell_pc' = "exit"
    /\ UNCHANGED <<commandQueue, taskQueue, nextTaskId, warnings, lines, stopMark, engineVars, unit>>

Shell == ShellQuit \/ ShellStop \/ ShellReset \/ ShellPrompt \/ ShellJoin

Next == Engine \/ Shell

Spec == Init /\ [][Next]_vars

\* the engine thread is scheduled as long as it can take a step and join
\* returns once the thread has ended; the shell otherwise waits on the
\* console, which may stay silent for ever
FairSpec == Spec /\ WF_vars(Engine) /\ WF_vars(ShellJoin)

-----------------------------------------------------------------------------
(* Reading the trace *)

\* index of the last "[Generating] " notice, 0 when there is none
LastGenerating(tr) ==
    LET S == {i \in DOMAIN tr : tr[i].ev = "Generating"}
    IN IF S = {} THEN 0 ELSE CHOOSE i \in S : \A j \in S : j <= i

\* what was printed and called since the last generation started
GenSegment(tr) == SubSeq(tr, LastGenerating(tr) + 1, Len(tr))

\* number of entries of seq whose kind is in kinds
CountEv(seq, kinds) == Cardinality({i \in DOMAIN seq : seq[i].ev \in kinds})

IsNotToken(e) == e.ev # "token"

\* seq without the streamed tokens
NonToken(seq) == SelectSeq(seq, IsNotToken)

\* the command popped by the last tryPop of the generation loop
StopPopped == cmd.popped /\ cmd.type = "STOP_CURRENT"

ResetPopped == cmd.popped /\ cmd.type = "RESET"

ShutdownPopped == cmd.popped /\ cmd.type = "SHUTDOWN"

-----------------------------------------------------------------------------
(* C1 *)

-----------------------------------------------------------------------------
(* C2 *)

\* no command was ever enqueued: every line handled so far was a prompt
NoCommandEnqueued == lines = nextTaskId - 1

\* C2 as stated: if no command is ever enqueued, every generation the engine
\* starts terminates: it emits [EOS] or [Max tokens reached] and status
\* returns to Idle.
C2_GenerationTerminates ==
    ([]NoCommandEnqueued) =>
        [](state.status = "GENERATING" =>
              <>(/\ state.status = "IDLE"
                 /\ CountEv(GenSegment(trace), {"EOS", "MaxTokens"}) = 1))

-----------------------------------------------------------------------------
(* C3 *)

\* C3 as stated: in every state in which status is Idle, current_task_id is
\* empty (-1), cancel_flag is false and reset_pending is false.
C3_IdleInvariant ==
    state.status = "IDLE" =>
        /\ state.currentTaskId = -1
        /\ state.cancelCurrent = FALSE
        /\ state.resetRequested = FALSE

-----------------------------------------------------------------------------
(* C4 *)

\* the id passed to the last startInference call, 0 when there was none
LastStartId(tr) ==
    LET S == {i \in DOMAIN tr : tr[i].ev = "start"}
    IN IF S = {} THEN 0 ELSE tr[CHOOSE i \in S : \A j \in S : j <= i].arg

\* C4: whenever status is Generating, current_task_id is set and is the id of
\* the task most recently popped from the TaskQueue, whose generation runs.
C4_GeneratingHasTask ==
    state.status = "GENERATING" =>
        /\ state.currentTaskId # -1
        /\ state.currentTaskId = task.id
        /\ task.id \in 1..(nextTaskId - 1)
        /\ pc \in (LoopPcs \cup {"gen_ret"}) => LastStartId(trace) = state.currentTaskId

\* the second task is being generated
C4_Witness ==
    state.status = "GENERATING" /\ pc = "gen_token" /\ state.currentTaskId = 2

-----------------------------------------------------------------------------
(* C5 *)

\* C5: once status is ShuttingDown it stays ShuttingDown, no task and no
\* command is popped any more, and the engine thread ends, its last act being
\* the driver reset of line 162.
C5_ShuttingDownTerminal ==
    /\ [][state.status = "SHUTTING_DOWN" =>
            /\ state'.status = "SHUTTING_DOWN"
            /\ commandQueue'.head = commandQueue.head
            /\ commandQueue'.count >= commandQueue.count
            /\ taskQueue'.head = taskQueue.head
            /\ taskQueue'.count >= taskQueue.count
            /\ pc' \in {"gen_ret", "loop", "exit", "done"}]_vars
    /\ [](pc = "done" =>
            /\ state.status = "SHUTTING_DOWN"
            /\ trace[Len(trace)] = Ev("reset", 0)
            /\ accel.ap_ctrl = 0)
    /\ ((state.status = "SHUTTING_DOWN") ~> (pc = "done"))

\* the engine thread has ended after a Shutdown popped inside a generation
C5_Witness == pc = "done" /\ state.status = "SHUTTING_DOWN" /\ ShutdownPopped

-----------------------------------------------------------------------------
(* C6 *)

\* C6 as stated: whenever the shell has handled /quit, the engine eventually
\* observes the Shutdown, ends, and the shell's join returns.
C6_QuitJoins == (shell_pc = "join") ~> (shell_pc = "exit")

-----------------------------------------------------------------------------
(* C7 *)

-----------------------------------------------------------------------------
(* C8 *)

\* C8: a Stop popped inside the generation loop of T sets cancel only; then
\* [Aborted] is all that is emitted, driver.reset() is not called (AP_CTRL
\* still holds START and the driver is as the last next_token left it),
\* status returns to Idle and current_task_id becomes -1.
C8_StopEndsGeneration ==
    /\ []((StopPopped /\ pc = "gen_cancel") =>
            state.cancelCurrent /\ ~state.resetRequested)
    /\ []((StopPopped /\ pc \in {"gen_ret", "clear_id"}) =>
            /\ NonToken(GenSegment(trace)) = <<Ev("start", task.id), Ev("Aborted", 0)>>
            /\ accel.ap_ctrl = 1
            /\ state.status = (IF pc = "gen_ret" THEN "GENERATING" ELSE "IDLE"))
    /\ [][(StopPopped /\ pc \in {"gen_cancel", "gen_ret", "clear_id"} /\ pc' # pc) =>
            /\ accel' = accel
            /\ pc = "gen_cancel" => pc' = "gen_ret"
            /\ pc = "gen_ret" => pc' = "clear_id"
            /\ pc = "clear_id" =>
                  /\ pc' = "loop"
                  /\ state'.status = "IDLE"
                  /\ state'.currentTaskId = -1
                  /\ trace' = trace]_vars

\* the generation ended by a Stop is about to clear current_task_id
C8_Witness == StopPopped /\ pc = "clear_id"

-----------------------------------------------------------------------------
(* C9 *)

\* C9: a Reset popped inside the generation loop of T emits [Aborted], then
\* calls driver.reset() once (every KV cache entry zero, AP_CTRL zero), then
\* emits [Memory cleared]; reset_pending is cleared and status returns to Idle.
C9_ResetEndsGeneration ==
    /\ []((ResetPopped /\ pc = "gen_cancel") =>
            state.cancelCurrent /\ state.resetRequested)
    /\ []((ResetPopped /\ pc \in {"gen_ret", "clear_id"}) =>
            /\ NonToken(GenSegment(trace)) =
                  <<Ev("start", task.id), Ev("Aborted", 0), Ev("reset", 0),
                    Ev("MemoryCleared", 0)>>
            /\ \A i \in DOMAIN accel.kv_cache : accel.kv_cache[i] = 0
            /\ accel.ap_ctrl = 0
            /\ ~state.resetRequested
            /\ state.status = (IF pc = "gen_ret" THEN "GENERATING" ELSE "IDLE"))
    /\ [][(ResetPopped /\ pc \in {"gen_cancel", "gen_ret", "clear_id"} /\ pc' # pc) =>
            /\ pc = "gen_cancel" => pc' = "gen_ret"
            /\ pc = "gen_ret" => pc' = "clear_id"
            /\ pc = "clear_id" =>
                  /\ pc' = "loop"
                  /\ state'.status = "IDLE"
                  /\ state'.currentTaskId = -1
                  /\ trace' = trace
                  /\ accel' = accel]_vars

\* the generation ended by a Reset is about to clear current_task_id
C9_Witness == ResetPopped /\ pc = "clear_id"

-----------------------------------------------------------------------------
(* C10 *)

\* C10: a Shutdown popped inside the generation loop sets cancel and status
\* ShuttingDown and ends the generation at once: next_token is not called
\* again, nothing more is streamed, no task is popped, and the engine thread
\* ends after exactly one driver.reset().
C10_ShutdownInGeneration ==
    /\ [](ShutdownPopped =>
            /\ state.cancelCurrent
            /\ state.status = "SHUTTING_DOWN"
            /\ pc \in {"gen_ret", "loop", "exit", "done"}
            /\ LET n == Len(trace)
               IN IF pc = "done"
                  THEN /\ trace[n] = Ev("reset", 0)
                       /\ trace[n - 1] = Ev("AbortedShutdown", 0)
                  ELSE trace[n] = Ev("AbortedShutdown", 0))
    /\ [][ShutdownPopped =>
            /\ taskQueue'.head = taskQueue.head
            /\ taskQueue'.count >= taskQueue.count
            /\ (accel' # accel) => (pc = "exit" /\ accel' = reset(accel))]_vars
    /\ (ShutdownPopped ~> (pc = "done"))

\* the engine thread has ended after a Shutdown popped inside the loop
C10_Witness == ShutdownPopped /\ pc = "done" /\ shell_pc = "exit"

-----------------------------------------------------------------------------
(* C11 *)

\* a step that pops a task from the TaskQueue
TaskPopped == taskQueue'.count < taskQueue.count

\* C11: at top level a task is popped only in a loop iteration whose tryPop of
\* the CommandQueue returned empty; a command found there is handled and the
\* loop starts over without the TaskQueue being touched.
C11_CommandsBeforeTasks ==
    [][/\ TaskPopped => (pc = "top_task" /\ pc' = "set_id")
       /\ (pc' = "top_task" /\ pc # "top_task") =>
             /\ pc = "top_cmd"
             /\ empty(commandQueue)
             /\ commandQueue' = commandQueue
       /\ (pc = "top_cmd" /\ pc' # pc /\ ~empty(commandQueue)) =>
             /\ commandQueue'.count = commandQueue.count - 1
             /\ pc' = "loop"
             /\ taskQueue' = taskQueue]_vars

\* a Reset was handled at top level and the engine, having then found the
\* CommandQueue empty, is about to pop a waiting task
C11_Witness ==
    /\ pc = "top_task"
    /\ ~empty(taskQueue)
    /\ empty(commandQueue)
    /\ LastGenerating(trace) = 0
    /\ CountEv(trace, {"MemoryCleared"}) = 1

-----------------------------------------------------------------------------
(* C12 *)

\* a step in which the engine handles a command popped at top level
TopCommandHandled == pc = "top_cmd" /\ pc' # pc /\ ~empty(commandQueue)

\* C12: a command handled at top level (status Idle) has exactly these
\* effects: Shutdown changes only status, to ShuttingDown; Reset calls
\* driver.reset() once, emits [Memory cleared] and leaves status Idle; Stop
\* changes no engine field, makes no driver call and emits nothing.  The
\* TaskQueue is left unchanged in all three cases.
C12_TopLevelCommandEffects ==
    [][TopCommandHandled =>
         LET c == popItem(commandQueue)
         IN /\ state.status = "IDLE"
            /\ taskQueue' = taskQueue
            /\ c.type = "SHUTDOWN" =>
                  /\ state' = [state EXCEPT !.status = "SHUTTING_DOWN"]
                  /\ accel' = accel
                  /\ trace' = trace
            /\ c.type = "RESET" =>
                  /\ state' = state
                  /\ trace' = trace \o <<Ev("reset", 0), Ev("MemoryCleared", 0)>>
                  /\ accel' = [accel EXCEPT !.irq_clear = -1, !.ap_ctrl = 0,
                                            !.kv_cache = [i \in DOMAIN accel.kv_cache |-> 0]]
            /\ c.type = "STOP_CURRENT" =>
                  /\ state' = state
                  /\ accel' = accel
                  /\ trace' = trace]_vars

\* no generation has run; a Reset and then a Shutdown were handled at top
\* level while a task was waiting in the TaskQueue
C12_Witness ==
    /\ pc = "loop"
    /\ state.status = "SHUTTING_DOWN"
    /\ trace = <<Ev("reset", 0), Ev("MemoryCleared", 0)>>
    /\ accel.irq_clear = -1
    /\ ~empty(taskQueue)

-----------------------------------------------------------------------------
(* queue.hpp on its own: one Queue<int, QueueCapacity>, any sequence of push  *)
(* and tryPop calls, each call one atomic step.  The k-th push call pushes    *)
(* the item k, so that every item is told from every other.                   *)

QueueUnit ==
    [kind |-> "queue",
     q |-> Queue(QueueCapacity, 0),
     calls |-> 0,            \* number of push calls made
     pushed |-> <<>>,        \* the items accepted by push, in call order
     popped |-> <<>>,        \* the items returned by tryPop, in call order
     last |-> "none"]        \* the last call and what it returned

QueueInit == ProgramInit /\ unit = QueueUnit

QueuePush ==
    /\ unit.calls < QueueCalls
    /\ LET item == unit.calls + 1
           ok == pushOk(unit.q, QueueCapacity)
       IN unit' = [unit EXCEPT !.q = push(unit.q, QueueCapacity, item),
                               !.calls = item,
                               !.pushed = IF ok THEN Append(unit.pushed, item)
                                          ELSE unit.pushed,
                               !.last = IF ok THEN "push_true" ELSE "push_false"]
    /\ UNCHANGED programVars

QueueTryPop ==
    /\ LET ok == popOk(unit.q)
       IN unit' = [unit EXCEPT !.q = tryPop(unit.q, QueueCapacity),
                               !.popped = IF ok THEN Append(unit.popped, popItem(unit.q))
                                          ELSE unit.popped,
                               !.last = IF ok THEN "pop_true" ELSE "pop_false"]
    /\ UNCHANGED programVars

QueueNext == QueuePush \/ QueueTryPop

QueueSpec == QueueInit /\ [][QueueNext]_vars

\* s is a prefix of t
IsPrefix(s, t) == Len(s) <= Len(t) /\ s = SubSeq(t, 1, Len(s))

-----------------------------------------------------------------------------
(* C13 *)

\* C13: for any sequence of atomic push and tryPop calls on a queue of
\* capacity N, the items returned by successful tryPop calls are a prefix of
\* the items accepted by successful push calls, also after head and tail
\* have wrapped around; what is still queued is the rest of that sequence.
C13_Fifo ==
    /\ IsPrefix(unit.popped, unit.pushed)
    /\ unit.popped \o Contents(unit.q, QueueCapacity) = unit.pushed

\* head and tail have both wrapped around and items pushed after the wrap
\* have been returned
C13_Witness ==
    /\ Len(unit.popped) > QueueCapacity
    /\ unit.q.tail < unit.q.head
    /\ unit.last = "pop_true"

-----------------------------------------------------------------------------
(* C14 *)

\* C14: after any sequence of push and tryPop calls on a queue of capacity N,
\* 0 <= count <= N, head and tail are in [0, N), empty() holds exactly when
\* count = 0 and full() exactly when count = N; each successful call
\* advances exactly one of head and tail by 1 modulo N.
C14_QueueInvariant ==
    /\ [](/\ unit.q.count \in 0..QueueCapacity
          /\ unit.q.head \in 0..(QueueCapacity - 1)
          /\ unit.q.tail \in 0..(QueueCapacity - 1)
          /\ empty(unit.q) <=> unit.q.count = 0
          /\ full(unit.q, QueueCapacity) <=> unit.q.count = QueueCapacity)
    /\ [][/\ unit'.last = "push_true" =>
                /\ unit'.q.tail = (unit.q.tail + 1) % QueueCapacity
                /\ unit'.q.head = unit.q.head
                /\ unit'.q.count = unit.q.count + 1
          /\ unit'.last = "pop_true" =>
                /\ unit'.q.head = (unit.q.head + 1) % QueueCapacity
                /\ unit'.q.tail = unit.q.tail
                /\ unit'.q.count = unit.q.count - 1]_vars

\* the queue is full with head and tail both back at a slot they left before
C14_Witness ==
    /\ full(unit.q, QueueCapacity)
    /\ unit.q.head = 1
    /\ unit.q.tail = 1
    /\ Len(unit.popped) > QueueCapacity

-----------------------------------------------------------------------------
(* queue.hpp shared by two threads: the Shell thread runs push, the Engine    *)
(* thread runs tryPop, on one Queue<int, RaceCapacity>.  The queue has no     *)
(* lock and no atomic member, so every read and every write of buffer, head,  *)
(* tail and count is a step of its own and the steps of the two calls         *)
(* interleave in any order.  count++ and count-- are a read followed by a     *)
(* write.  The k-th push call pushes the item k; a slot never written holds 0.*)

RaceUnit ==
    [kind |-> "race",
     q |-> Queue(RaceCapacity, 0),
     ppc |-> "idle",         \* position of the Shell thread inside push
     preg |-> 0,             \* the value of count push has read for count++
     cpc |-> "idle",         \* position of the Engine thread inside pop
     creg |-> 0,             \* the value of count pop has read for count--
     calls |-> 0,            \* number of push calls made
     pushed |-> <<>>,        \* items of the push calls that returned true
     popped |-> <<>>]        \* items of the tryPop calls that returned true

RaceInit == ProgramInit /\ unit = RaceUnit

\* line 21: push is called and tests count
PushTestCount ==
    /\ unit.ppc = "idle"
    /\ unit.calls < RaceCalls
    /\ unit' = [unit EXCEPT !.calls = unit.calls + 1,
                            !.ppc = IF unit.q.count >= RaceCapacity THEN "idle" ELSE "store"]
    /\ UNCHANGED programVars

\* line 24: buffer[tail] = item
PushStore ==
    /\ unit.ppc = "store"
    /\ unit' = [unit EXCEPT !.q.buffer[unit.q.tail] = unit.calls, !.ppc = "tail"]
    /\ UNCHANGED programVars

\* line 25: tail = (tail + 1) % MAX_SIZE
PushAdvanceTail ==
    /\ unit.ppc = "tail"
    /\ unit' = [unit EXCEPT !.q.tail = (unit.q.tail + 1) % RaceCapacity, !.ppc = "read"]
    /\ UNCHANGED programVars

\* line 26, first half: count++ reads count
PushReadCount ==
    /\ unit.ppc = "read"
    /\ unit' = [unit EXCEPT !.preg = unit.q.count, !.ppc = "write"]
    /\ UNCHANGED programVars

\* line 26, second half, and line 27: count++ writes count; push returns true
PushWriteCount ==
    /\ unit.ppc = "write"
    /\ unit' = [unit EXCEPT !.q.count = unit.preg + 1,
                            !.pushed = Append(unit.pushed, unit.calls),
                            !.ppc = "idle"]
    /\ UNCHANGED programVars

\* line 31: pop is called and tests count
PopTestCount ==
    /\ unit.cpc = "idle"
    /\ unit' = [unit EXCEPT !.cpc = IF unit.q.count = 0 THEN "idle" ELSE "load"]
    /\ UNCHANGED programVars

\* line 34: item = buffer[head]; the item is the one the call returns
PopLoad ==
    /\ unit.cpc = "load"
    /\ unit' = [unit EXCEPT !.popped = Append(unit.popped, unit.q.buffer[unit.q.head]),
                            !.cpc = "head"]
    /\ UNCHANGED programVars

\* line 35: head = (head + 1) % MAX_SIZE
PopAdvanceHead ==
    /\ unit.cpc = "head"
    /\ unit' = [unit EXCEPT !.q.head = (unit.q.head + 1) % RaceCapacity, !.cpc = "read"]
    /\ UNCHANGED programVars

\* line 36, first half: count-- reads count
PopReadCount ==
    /\ unit.cpc = "read"
    /\ unit' = [unit EXCEPT !.creg = unit.q.count, !.cpc = "write"]
    /\ UNCHANGED programVars

\* line 36, second half, and line 37: count-- writes count; pop returns true
PopWriteCount ==
    /\ unit.cpc = "write"
    /\ unit' = [unit EXCEPT !.q.count = unit.creg - 1, !.cpc = "idle"]
    /\ UNCHANGED programVars

RacePush ==
    PushTestCount \/ PushStore \/ PushAdvanceTail \/ PushReadCount \/ PushWriteCount

RacePop ==
    PopTestCount \/ PopLoad \/ PopAdvanceHead \/ PopReadCount \/ PopWriteCount

RaceNext == RacePush \/ RacePop

RaceSpec == RaceInit /\ [][RaceNext]_vars

-----------------------------------------------------------------------------
(* C15 *)

\* no call is in progress on the shared queue
RaceQuiet == unit.ppc = "idle" /\ unit.cpc = "idle"

\* no item occurs twice in seq
NoDuplicate(seq) == \A i, j \in DOMAIN seq : i # j => seq[i] # seq[j]

\* C15 as stated: with push and tryPop running concurrently and their reads
\* and writes interleaved in any order, the queue needs no external lock:
\* once the calls have returned count equals successful pushes minus
\* successful pops, and no item is returned twice, no accepted item is lost
\* and no slot that was never written is returned.
C15_NoLockNeeded ==
    /\ NoDuplicate(unit.popped)
    /\ \A i \in DOMAIN unit.popped : unit.popped[i] # 0
    /\ RaceQuiet =>
          /\ unit.q.count = Len(unit.pushed) - Len(unit.popped)
          /\ IsPrefix(unit.popped, unit.pushed)

-----------------------------------------------------------------------------
(* C16 *)

\* a step in which main pushes a command (lines 265, 268, 270)
CommandPushCalled == lines' = lines + 1 /\ nextTaskId' = nextTaskId

\* a step in which main calls pushTask (lines 272-273)
PushTaskCalled == nextTaskId' = nextTaskId + 1

\* the ids of the queued tasks, oldest first
QueuedIds == [i \in 1..taskQueue.count |-> Contents(taskQueue, TaskCapacity)[i].id]

\* C16: a rejected queue operation changes nothing.  push on a queue holding
\* capacity items and tryPop on an empty queue return false and leave head,
\* tail, count and the stored items as they were; pushTask reports a push on
\* the full TaskQueue with the 'Task queue full' warning, and the tasks
\* already queued are still delivered in order.
C16_RejectedChangesNothing ==
    /\ [][/\ (CommandPushCalled /\ full(commandQueue, CmdCapacity)) =>
                commandQueue' = commandQueue
          /\ (PushTaskCalled /\ full(taskQueue, TaskCapacity)) =>
                /\ taskQueue' = taskQueue
                /\ warnings' = warnings + 1
          /\ (PushTaskCalled /\ ~full(taskQueue, TaskCapacity)) =>
                /\ QueuedIds' = Append(QueuedIds, nextTaskId)
                /\ warnings' = warnings
          /\ (pc \in {"top_cmd", "gen_cmd"} /\ pc' # pc /\ empty(commandQueue)) =>
                /\ commandQueue' = commandQueue
                /\ state' = state
                /\ trace' = trace
                /\ pc' = IF pc = "top_cmd" THEN "top_task" ELSE "gen_cancel"
          /\ (pc = "top_task" /\ pc' # pc /\ empty(taskQueue)) =>
                /\ taskQueue' = taskQueue
                /\ task' = task
                /\ pc' = "loop"
          /\ TaskPopped =>
                /\ task'.id = QueuedIds[1]
                /\ QueuedIds' = Tail(QueuedIds)]_vars
    /\ [](\A i, j \in DOMAIN QueuedIds : i < j => QueuedIds[i] < QueuedIds[j])

\* the third task was refused with the warning while tasks 1 and 2 were
\* queued, and both have since been started, in that order
C16_Witness ==
    /\ warnings = 1
    /\ nextTaskId = 4
    /\ LastStartId(trace) = 2
    /\ CountEv(trace, {"start"}) = 2

-----------------------------------------------------------------------------
(* C17 *)

\* the ids passed to startInference, in call order
StartIds(tr) ==
    LET IsStart(e) == e.ev = "start"
        starts == SelectSeq(tr, IsStart)
    IN [i \in DOMAIN starts |-> starts[i].arg]

\* the task with this id was accepted by pushTask and waits in the TaskQueue
Queued(id) == \E i \in DOMAIN QueuedIds : QueuedIds[i] = id

\* startInference has been called with this id
Started(id) == \E i \in DOMAIN StartIds(trace) : StartIds(trace)[i] = id

\* the safety half of C17: no task id is passed to startInference twice and
\* the ids of successive startInference calls are strictly increasing
C17_StartedInOrder ==
    \A i, j \in DOMAIN StartIds(trace) : i < j => StartIds(trace)[i] < StartIds(trace)[j]

\* C17 as stated: every task accepted by pushTask is consumed at most once,
\* the ids of successive startInference calls are strictly increasing, and
\* unless a Shutdown is observed first every accepted task is eventually
\* started.
C17_ConsumedOnce ==
    /\ []C17_StartedInOrder
    /\ \A id \in 1..MaxLines :
          Queued(id) ~> (Started(id) \/ state.status = "SHUTTING_DOWN")

-----------------------------------------------------------------------------
(* accelerator.hpp on its own: one Accelerator, any sequence of              *)
(* startInference, getNextToken and reset calls.  The four status registers   *)
(* are what the device presents to readReg; the driver never writes them      *)
(* (pack_to_words is empty), so they keep, through a whole run, the value     *)
(* drawn for them at the start.  All zero is what the simulation of the       *)
(* program itself presents; the other values are a device that reports its    *)
(* status.  The KV cache likewise starts with any contents.                   *)

\* status register contents: current_token, tokens_generated, error_code, flags
DeviceStatus ==
    { (0 :> t @@ 1 :> n @@ 2 :> 0 @@ 3 :> f) :
          t \in {0, 7}, n \in 0..DeviceTokens, f \in 0..3 }

\* KV cache contents left behind by earlier inferences
DeviceKvCache == [0..(KvSize - 1) -> {0, 9}]

DriverUnit(w, kv) ==
    [kind |-> "driver",
     accel |-> [Accelerator EXCEPT !.status_words = w, !.kv_cache = kv],
     kv0 |-> kv,             \* the KV cache as it was at the start
     last |-> "none",        \* the last call made
     ok |-> FALSE,           \* what the last getNextToken returned
     n |-> 0,                \* tokens_generated the device reported at that call
     prevYield |-> -1,       \* yielded, as it was before that call
     yielded |-> -1,         \* tokens_generated the device reported at the last call
                             \* of this inference that returned true, -1 when none did
     resets |-> 0,           \* number of reset calls in a row, counted up to 2
     afterReset |-> Accelerator]   \* the driver as the first reset of that row left it

DriverInit ==
    ProgramInit /\ \E w \in DeviceStatus, kv \in DeviceKvCache : unit = DriverUnit(w, kv)

DriverStartInference ==
    /\ \E p \in Prompts :
          unit' = [unit EXCEPT !.accel = startInference(unit.accel, 1, p),
                               !.last = "startInference",
                               !.yielded = -1,
                               !.resets = 0]
    /\ UNCHANGED programVars

DriverGetNextToken ==
    /\ LET r == getNextToken(unit.accel)
           reported == readStatusWord(unit.accel, 1)
       IN unit' = [unit EXCEPT !.accel = r.accel,
                               !.last = "getNextToken",
                               !.ok = r.ok,
                               !.n = reported,
                               !.prevYield = unit.yielded,
                               !.yielded = IF r.ok THEN reported ELSE unit.yielded,
                               !.resets = 0]
    /\ UNCHANGED programVars

DriverReset ==
    /\ unit' = [unit EXCEPT !.accel = reset(unit.accel),
                            !.last = "reset",
                            !.resets = IF unit.resets = 0 THEN 1 ELSE 2,
                            !.afterReset = IF unit.resets = 0 THEN reset(unit.accel)
                                           ELSE unit.afterReset]
    /\ UNCHANGED programVars

DriverNext == DriverStartInference \/ DriverGetNextToken \/ DriverReset

DriverSpec == DriverInit /\ [][DriverNext]_vars

-----------------------------------------------------------------------------
(* C18 *)

-----------------------------------------------------------------------------
(* C19 *)

\* C19: driver.reset() is idempotent.  After reset() every KV cache entry is
\* zero, the last value written to AP_CTRL is 0 and to IRQ-clear all ones;
\* a second reset() in a row leaves AP_CTRL, IRQ-clear, the KV cache and the
\* cached config and status as the first one left them.
C19_ResetIdempotent ==
    unit.last = "reset" =>
        /\ \A i \in DOMAIN unit.accel.kv_cache : unit.accel.kv_cache[i] = 0
        /\ unit.accel.ap_ctrl = 0
        /\ unit.accel.irq_clear = -1
        /\ unit.accel = unit.afterReset

\* with a KV cache that was not all zero, an inference was started and polled,
\* then reset() was called twice in a row
C19_Witness ==
    /\ unit.last = "reset"
    /\ unit.resets = 2
    /\ unit.accel.config.task_id = 1
    /\ unit.accel.status.flags = 1
    /\ \E i \in DOMAIN unit.kv0 : unit.kv0[i] # 0

-----------------------------------------------------------------------------
(* config_struct.hpp: ConfigIn.  The struct is three uint64_t, twelve        *)
(* uint32_t and uint32_t reserved[20]: 152 bytes with no padding, which pack  *)
(* and unpack copy whole with memcpy.  On the little-endian targets the       *)
(* firmware is built for, memcpy lays a uint64_t out as its low word followed *)
(* by its high word.                                                          *)

\* the uint32_t members that follow the three addresses, in declaration order
Fields32 ==
    <<"stride", "max_tokens", "batch_size", "sequence_length", "num_layers",
      "hidden_size", "num_heads", "vocab_size", "prompt_length", "task_id",
      "task_type", "flags">>

\* ConfigIn(): every member zero
ConfigIn ==
    [input_buffer_addr |-> 0, output_buffer_addr |-> 0, kv_cache_addr |-> 0,
     stride |-> 0, max_tokens |-> 0, batch_size |-> 0, sequence_length |-> 0,
     num_layers |-> 0, hidden_size |-> 0, num_heads |-> 0, vocab_size |-> 0,
     prompt_length |-> 0, task_id |-> 0, task_type |-> 0, flags |-> 0,
     reserved |-> [k \in 0..19 |-> 0]]

\* the low and the high word of a 64-bit value
LowWord(v) == v % WordModulus

HighWord(v) == v \div WordModulus

\* mutant: the two words of every 64-bit member are laid out high word first
ConfigIn_pack_HighFirst(c) ==
    [i \in 0..37 |->
        CASE i = 0 -> HighWord(c.input_buffer_addr)
          [] i = 1 -> LowWord(c.input_buffer_addr)
          [] i = 2 -> HighWord(c.output_buffer_addr)
          [] i = 3 -> LowWord(c.output_buffer_addr)
          [] i = 4 -> HighWord(c.kv_cache_addr)
          [] i = 5 -> LowWord(c.kv_cache_addr)
          [] i \in 6..17 -> c[Fields32[i - 5]]
          [] OTHER -> c.reserved[i - 18]]

\* pack: memcpy(words, this, 38 * sizeof(uint32_t))
ConfigIn_pack(c) ==
    [i \in 0..37 |->
        CASE i = 0 -> LowWord(c.input_buffer_addr)
          [] i = 1 -> HighWord(c.input_buffer_addr)
          [] i = 2 -> LowWord(c.output_buffer_addr)
          [] i = 3 -> HighWord(c.output_buffer_addr)
          [] i = 4 -> LowWord(c.kv_cache_addr)
          [] i = 5 -> HighWord(c.kv_cache_addr)
          [] i \in 6..17 -> c[Fields32[i - 5]]
          [] OTHER -> c.reserved[i - 18]]

\* unpack: memcpy(this, words, 38 * sizeof(uint32_t))
ConfigIn_unpack(words) ==
    [input_buffer_addr |-> words[1] * WordModulus + words[0],
     output_buffer_addr |-> words[3] * WordModulus + words[2],
     kv_cache_addr |-> words[5] * WordModulus + words[4],
     stride |-> words[6], max_tokens |-> words[7], batch_size |-> words[8],
     sequence_length |-> words[9], num_layers |-> words[10], hidden_size |-> words[11],
     num_heads |-> words[12], vocab_size |-> words[13], prompt_length |-> words[14],
     task_id |-> words[15], task_type |-> words[16], flags |-> words[17],
     reserved |-> [k \in 0..19 |-> words[18 + k]]]

\* setAddress: addr & 0xFFFFFFFF into words[start_word], addr >> 32 into the next
setAddress(words, start_word, addr) ==
    [words EXCEPT ![start_word] = LowWord(addr), ![start_word + 1] = HighWord(addr)]

\* getAddress: (high << 32) | low
getAddress(words, start_word) ==
    words[start_word + 1] * WordModulus + words[start_word]

\* the values drawn for a 64-bit member: zero, low word only, high word only,
\* and all bits set
Addresses == {0, 1, WordModulus, WordModulus * WordModulus - 1}

\* the values drawn for a 32-bit member: zero and all bits set
Words32 == {0, WordModulus - 1}

\* the ConfigIn values pack is applied to
ConfigInputs ==
    { [ConfigIn EXCEPT !.input_buffer_addr = a, !.output_buffer_addr = b,
                       !.kv_cache_addr = k, !.stride = s, !.task_id = t,
                       !.flags = f, !.reserved[19] = r] :
          a \in Addresses, b \in Addresses, k \in Addresses,
          s \in Words32, t \in Words32, f \in Words32, r \in Words32 }

ConfigUnit(c) ==
    [kind |-> "config",
     stage |-> "built",      \* built, packed, unpacked
     c |-> c,                \* the ConfigIn that is packed
     words |-> [i \in 0..37 |-> 0],   \* the caller's uint32_t words[38]
     c2 |-> ConfigIn]        \* the ConfigIn that unpack fills

ConfigInit == ProgramInit /\ \E c \in ConfigInputs : unit = ConfigUnit(c)

\* c.pack(words)
ConfigPack ==
    /\ unit.stage = "built"
    /\ unit' = [unit EXCEPT !.words = ConfigIn_pack(unit.c), !.stage = "packed"]
    /\ UNCHANGED programVars

\* c2.unpack(words)
ConfigUnpack ==
    /\ unit.stage = "packed"
    /\ unit' = [unit EXCEPT !.c2 = ConfigIn_unpack(unit.words), !.stage = "unpacked"]
    /\ UNCHANGED programVars

ConfigNext == ConfigPack \/ ConfigUnpack

ConfigSpec == ConfigInit /\ [][ConfigNext]_vars

-----------------------------------------------------------------------------
(* C20 *)

\* C20: for every ConfigIn c, unpack(pack(c)) equals c field by field; pack
\* is deterministic, the 38 words being fixed by the members of c; each
\* 64-bit address occupies two adjacent words, the low 32 bits in the
\* lower-indexed one, as setAddress and getAddress lay it out.
C20_PackUnpack ==
    /\ unit.stage \in {"packed", "unpacked"} =>
          /\ DOMAIN unit.words = 0..37
          /\ unit.words[0] = unit.c.input_buffer_addr % WordModulus
          /\ unit.words[1] = unit.c.input_buffer_addr \div WordModulus
          /\ unit.words[2] = unit.c.output_buffer_addr % WordModulus
          /\ unit.words[3] = unit.c.output_buffer_addr \div WordModulus
          /\ unit.words[4] = unit.c.kv_cache_addr % WordModulus
          /\ unit.words[5] = unit.c.kv_cache_addr \div WordModulus
          /\ \A i \in 6..17 : unit.words[i] = unit.c[Fields32[i - 5]]
          /\ \A i \in 18..37 : unit.words[i] = unit.c.reserved[i - 18]
          /\ getAddress(unit.words, 0) = unit.c.input_buffer_addr
          /\ getAddress(unit.words, 2) = unit.c.output_buffer_addr
          /\ getAddress(unit.words, 4) = unit.c.kv_cache_addr
          /\ setAddress(setAddress(setAddress(unit.words, 0, 0), 2, 0), 4, 0) =
                ConfigIn_pack([unit.c EXCEPT !.input_buffer_addr = 0,
                                             !.output_buffer_addr = 0,
                                             !.kv_cache_addr = 0])
          /\ setAddress([i \in 0..37 |-> 0], 4, unit.c.kv_cache_addr) =
                ConfigIn_pack([ConfigIn EXCEPT !.kv_cache_addr = unit.c.kv_cache_addr])
    /\ unit.stage = "unpacked" =>
          \A f \in DOMAIN unit.c : unit.c2[f] = unit.c[f]

\* a ConfigIn whose addresses have differing low and high words and whose
\* last reserved word is set has been packed and unpacked again
C20_Witness ==
    /\ unit.stage = "unpacked"
    /\ unit.c.input_buffer_addr = 1
    /\ unit.c.kv_cache_addr = WordModulus
    /\ unit.words[5] = 1
    /\ unit.c.reserved[19] # 0
    /\ unit.c2.flags # 0

-----------------------------------------------------------------------------
(* weight_loader.hpp: INT4Weights.  Two 4-bit weights per byte, the even     *)
(* index in the lower nibble, the odd index in the upper nibble.  A byte is  *)
(* a number in 0..255: byte >> 4 is byte \div 16, byte & 0x0F is byte % 16.  *)

\* the largest num_weights a block is allocated with
Int4Weights == 3

\* INT4Weights after allocate(n): (n + 1) / 2 bytes, all zero
allocate(n) ==
    [data |-> [k \in 0..(((n + 1) \div 2) - 1) |-> 0],
     num_weights |-> n,
     data_size |-> (n + 1) \div 2]

\* getWeight: 0 past the end; the nibble, with 0xF0 or-ed in when bit 3 is
\* set, read back as int8_t (nibble - 16)
getWeight(b, idx) ==
    IF idx >= b.num_weights THEN 0
    ELSE LET byte == b.data[idx \div 2]
             value == IF idx % 2 = 1 THEN (byte \div 16) % 16 ELSE byte % 16
         IN  IF value >= 8 THEN value - 16 ELSE value

\* setWeight that stores the byte without keeping its other nibble
setWeight_DropsOtherNibble(b, idx, v) ==
    IF idx >= b.num_weights THEN b
    ELSE LET value == IF v < -8 THEN -8 ELSE IF v > 7 THEN 7 ELSE v
             masked_value == value % 16
         IN  [b EXCEPT !.data[idx \div 2] =
                 IF idx % 2 = 1 THEN masked_value * 16 ELSE masked_value]

\* setWeight: nothing past the end; clamp to [-8, 7]; value & 0x0F (value % 16:
\* the low four bits of the two's complement); replace the one nibble
setWeight(b, idx, v) ==
    IF idx >= b.num_weights THEN b
    ELSE LET value == IF v < -8 THEN -8 ELSE IF v > 7 THEN 7 ELSE v
             masked_value == value % 16
             byte == b.data[idx \div 2]
         IN  [b EXCEPT !.data[idx \div 2] =
                 IF idx % 2 = 1 THEN (byte % 16) + masked_value * 16
                 ELSE (byte \div 16) * 16 + masked_value]

\* the int8_t values setWeight is called with: both ends of the type, both
\* sides of each clamp limit, and values around zero
Int8Samples == {-128, -9, -8, -7, -1, 0, 1, 7, 8, 127}

Int4Unit(n) ==
    [kind |-> "int4",
     b |-> allocate(n),       \* the block
     before |-> allocate(n),  \* the block before the last setWeight
     idx |-> 0,               \* the arguments of the last setWeight
     val |-> 0,
     calls |-> 0]             \* 0: no setWeight yet, 1: at least one

Int4Init == ProgramInit /\ \E n \in 1..Int4Weights : unit = Int4Unit(n)

\* b.setWeight(i, v), also with i at and past num_weights
Int4SetWeight ==
    /\ unit.kind = "int4"
    /\ \E i \in 0..(unit.b.num_weights + 1), v \in Int8Samples :
          unit' = [unit EXCEPT !.before = unit.b,
                               !.b = setWeight(unit.b, i, v),
                               !.idx = i, !.val = v, !.calls = 1]
    /\ UNCHANGED programVars

Int4Next == Int4SetWeight

Int4Spec == Int4Init /\ [][Int4Next]_vars

-----------------------------------------------------------------------------
(* C21 *)

\* C21: after setWeight(i, v) with i < num_weights, getWeight(i) is v clamped
\* to [-8, 7] and getWeight(j) is what it was for every other j, the other
\* nibble of the same byte included; with i >= num_weights the block is
\* unchanged and getWeight(i) is 0.
C21_SetGet ==
    unit.calls = 1 =>
        IF unit.idx < unit.b.num_weights
        THEN /\ getWeight(unit.b, unit.idx) =
                   (IF unit.val < -8 THEN -8 ELSE IF unit.val > 7 THEN 7 ELSE unit.val)
             /\ \A j \in 0..(unit.b.num_weights + 1) :
                   j # unit.idx => getWeight(unit.b, j) = getWeight(unit.before, j)
             /\ \A k \in DOMAIN unit.b.data : unit.b.data[k] \in 0..255
        ELSE /\ unit.b = unit.before
             /\ getWeight(unit.b, unit.idx) = 0

\* -128 has been stored in an upper nibble whose lower neighbour holds -1
C21_Witness ==
    /\ unit.calls = 1
    /\ unit.idx = 1
    /\ unit.val = -128
    /\ unit.b.num_weights >= 2
    /\ getWeight(unit.b, 1) = -8
    /\ getWeight(unit.b, 0) = -1
    /\ unit.b.data[0] = 143

-----------------------------------------------------------------------------
(* weight_loader.hpp: WeightLoader, and the weight-loading phase of main.    *)
(* A std::vector<float> is the sequence of its elements; loadFromBinary      *)
(* resizes the vectors and skips the file's data, so every element is 0.     *)
(* The header fields are uint32_t and their products are formed in uint32_t  *)
(* before they are widened to size_t: a 32-bit word is scaled to             *)
(* 0..WordModulus-1 and such a product is taken modulo WordModulus.          *)

\* the magic number loadFromBinary compares with: 0x57544E54
MAGIC == 1464094292

\* the largest num_layers a container is drawn with
MaxLayers == 2

\* uint32_t * uint32_t
Mul32(a, b) == (a * b) % WordModulus

\* std::vector<float>::resize(n) of an empty vector
Zeros(n) == [k \in 1..n |-> 0]

\* the values drawn for hidden_size, vocab_size, max_seq_len and
\* intermediate_size: products of two of them can stay below WordModulus,
\* reach it and pass it
HeaderValues == {1, 2, WordModulus - 1}

\* struct Header, as the file holds it
Headers ==
    [magic : {MAGIC, MAGIC + 1, 0}, version : {1}, num_layers : 0..MaxLayers,
     hidden_size : HeaderValues, num_heads : {1}, vocab_size : HeaderValues,
     max_seq_len : HeaderValues, intermediate_size : HeaderValues]

\* where the bytes of a file end: "none" is a complete file, "header" a file
\* that ends after the magic and before the end of the 32-byte header,
\* "embeddings" one that ends after the checksum offset within the two
\* embedding tables, "record" within a weight-block record, "trailer" within
\* the checksum trailer
Cuts == {"none", "header", "embeddings", "record", "trailer"}

\* a header of which the file holds the magic only
MagicOnly(m) ==
    [magic |-> m, version |-> 1, num_layers |-> 0, hidden_size |-> 1,
     num_heads |-> 1, vocab_size |-> 1, max_seq_len |-> 1, intermediate_size |-> 1]

\* the files model.pt.bin can be: the header, the checksum offset that
\* follows it (0: no trailer) and the place the bytes end
Containers ==
    { c \in [header : Headers, checksum_offset : {0, 1}, cut : Cuts] :
        /\ c.cut = "record" => c.header.num_layers >= 1
        /\ c.cut = "trailer" => c.checksum_offset > 0
        /\ c.cut = "header" =>
              c.header = MagicOnly(c.header.magic) /\ c.checksum_offset = 0 }

\* what file.read leaves in header (line 240): the file's header, or, when
\* the file ends inside the header, the magic followed by members that were
\* never written
ReadHeader(c) ==
    IF c.cut = "header" THEN { h \in Headers : h.magic = c.header.magic }
    ELSE { c.header }

\* what file.read leaves in checksum_offset (line 262)
ReadChecksumOffset(c) ==
    IF c.cut = "header" THEN {0, 1} ELSE { c.checksum_offset }

\* lines 318-344 on a file that ended before its trailer did: num_checksums
\* and name_len are never written, name_buf[name_len] = '\0' is a store at an
\* index of any value; the call returns or the process is killed
ReadCrashes(c, co) ==
    IF co > 0 /\ c.cut # "none" THEN {FALSE, TRUE} ELSE {FALSE}

\* ModelWeights()
ModelWeights ==
    [token_embeddings |-> <<>>, position_embeddings |-> <<>>, layers |-> <<>>,
     lm_head |-> <<>>, num_layers |-> 0, hidden_size |-> 0, num_heads |-> 0,
     vocab_size |-> 0, max_seq_len |-> 0]

\* WeightLoader()
WeightLoader ==
    [weights |-> ModelWeights, loaded |-> FALSE, ddr_weights_phys |-> 0,
     ddr_weights_virt |-> FALSE,       \* TRUE: a non-null pointer
     ddr_weights_size |-> 0]

\* lines 277-298: one element of weights.layers
LayerWeights(i, h) ==
    [layer_idx |-> i, hidden_size |-> h.hidden_size,
     intermediate_size |-> h.intermediate_size,
     q_weights |-> allocate(Mul32(h.hidden_size, h.hidden_size)),
     k_weights |-> allocate(Mul32(h.hidden_size, h.hidden_size)),
     v_weights |-> allocate(Mul32(h.hidden_size, h.hidden_size)),
     o_weights |-> allocate(Mul32(h.hidden_size, h.hidden_size)),
     ffn_up |-> allocate(Mul32(h.hidden_size, h.intermediate_size)),
     ffn_down |-> allocate(Mul32(h.intermediate_size, h.hidden_size)),
     ln1_weight |-> Zeros(h.hidden_size), ln1_bias |-> Zeros(h.hidden_size),
     ln2_weight |-> Zeros(h.hidden_size), ln2_bias |-> Zeros(h.hidden_size)]

\* lines 255-298: the ModelWeights built from the header that was read
LoadedWeights(h) ==
    [token_embeddings |-> Zeros(Mul32(h.vocab_size, h.hidden_size)),
     position_embeddings |-> Zeros(Mul32(h.max_seq_len, h.hidden_size)),
     layers |-> [i \in 1..h.num_layers |-> LayerWeights(i - 1, h)],
     lm_head |-> <<>>,
     num_layers |-> h.num_layers, hidden_size |-> h.hidden_size,
     num_heads |-> h.num_heads, vocab_size |-> h.vocab_size,
     max_seq_len |-> h.max_seq_len]

\* loadFromBinary that does not compare the magic
loadFromBinary_NoMagicCheck(l, h, co, crash) ==
    IF crash
    THEN [loader |-> [l EXCEPT !.weights = LoadedWeights(h)], result |-> "crash"]
    ELSE [loader |-> [l EXCEPT !.weights = LoadedWeights(h), !.loaded = TRUE],
          result |-> "true"]

\* loadFromBinary on an opened file: h and co are what the reads of lines
\* 240 and 262 left in header and checksum_offset, crash says whether the
\* trailer loop killed the process.  No read or seek is tested for success.
loadFromBinary(l, h, co, crash) ==
    IF h.magic # MAGIC THEN [loader |-> l, result |-> "false"]
    ELSE IF crash
    THEN [loader |-> [l EXCEPT !.weights = LoadedWeights(h)], result |-> "crash"]
    ELSE [loader |-> [l EXCEPT !.weights = LoadedWeights(h), !.loaded = TRUE],
          result |-> "true"]

\* lines 160-171 and 449-458: the bytes both loops add for one layer
LayerTotal(layer) ==
    layer.q_weights.data_size + layer.k_weights.data_size
    + layer.v_weights.data_size + layer.o_weights.data_size
    + layer.ffn_up.data_size + layer.ffn_down.data_size
    + Len(layer.ln1_weight) * 2 + Len(layer.ln1_bias) * 2
    + Len(layer.ln2_weight) * 2 + Len(layer.ln2_bias) * 2

RECURSIVE LayersTotal(_, _)
\* the loop over the first n layers
LayersTotal(layers, n) ==
    IF n = 0 THEN 0 ELSE LayersTotal(layers, n - 1) + LayerTotal(layers[n])

calculateDDRSize(l) ==
    Len(l.weights.token_embeddings) * 2 + Len(l.weights.position_embeddings) * 2
    + LayersTotal(l.weights.layers, Len(l.weights.layers))
    + Len(l.weights.lm_head) * 2

\* allocateDDR that also refuses a region of exactly the required size
allocateDDR_RefusesExactFit(l, phys_addr, virt_addr, size) ==
    [loader |-> [l EXCEPT !.ddr_weights_phys = phys_addr,
                          !.ddr_weights_virt = virt_addr,
                          !.ddr_weights_size = size],
     ok |-> ~(calculateDDRSize(l) >= size)]

\* allocateDDR: the region is stored before the size is tested
allocateDDR(l, phys_addr, virt_addr, size) ==
    [loader |-> [l EXCEPT !.ddr_weights_phys = phys_addr,
                          !.ddr_weights_virt = virt_addr,
                          !.ddr_weights_size = size],
     ok |-> ~(calculateDDRSize(l) > size)]

\* one memcpy run of copyToDDR: what is copied, of which layer (-1: of no
\* layer), at which offset, how many bytes
Write(section, layer, offset, bytes) ==
    [section |-> section, layer |-> layer, offset |-> offset, bytes |-> bytes]

\* lines 406-429: the six blocks of a layer and its ln1_weight
LayerWrites(layer, i, offset) ==
    LET o1 == offset + layer.q_weights.data_size
        o2 == o1 + layer.k_weights.data_size
        o3 == o2 + layer.v_weights.data_size
        o4 == o3 + layer.o_weights.data_size
        o5 == o4 + layer.ffn_up.data_size
        o6 == o5 + layer.ffn_down.data_size
    IN  << Write("q", i, offset, layer.q_weights.data_size),
           Write("k", i, o1, layer.k_weights.data_size),
           Write("v", i, o2, layer.v_weights.data_size),
           Write("o", i, o3, layer.o_weights.data_size),
           Write("ffn_up", i, o4, layer.ffn_up.data_size),
           Write("ffn_down", i, o5, layer.ffn_down.data_size),
           Write("ln1_w", i, o6, Len(layer.ln1_weight) * 2) >>

\* where the writes end: the offset past the last one
WritesEnd(writes, offset) ==
    IF writes = <<>> THEN offset
    ELSE writes[Len(writes)].offset + writes[Len(writes)].bytes

RECURSIVE CopyLayers(_, _, _)
\* lines 402-430: the loop over the layers from the i-th on
CopyLayers(layers, i, offset) ==
    IF i > Len(layers) THEN <<>>
    ELSE LET w == LayerWrites(layers[i], i - 1, offset)
         IN  w \o CopyLayers(layers, i + 1, WritesEnd(w, offset))

\* copyToDDR: refuses without loaded weights or without a region; else the
\* token embeddings, then the layers
copyToDDR(l) ==
    IF ~l.loaded \/ ~l.ddr_weights_virt THEN [ok |-> FALSE, writes |-> <<>>]
    ELSE LET e == Write("token_embeddings", -1, 0, Len(l.weights.token_embeddings) * 2)
         IN  [ok |-> TRUE,
              writes |-> <<e>> \o CopyLayers(l.weights.layers, 1, e.bytes)]

\* getLayerAddress that leaves the layer-norm biases out of a layer
getLayerAddress_NoBias(l, layer_idx) ==
    IF layer_idx >= Len(l.weights.layers) THEN 0
    ELSE l.ddr_weights_phys
         + Len(l.weights.token_embeddings) * 2
         + Len(l.weights.position_embeddings) * 2
         + LayersTotal([i \in 1..layer_idx |->
                          [l.weights.layers[i] EXCEPT !.ln1_bias = <<>>,
                                                      !.ln2_bias = <<>>]],
                       layer_idx)

getLayerAddress(l, layer_idx) ==
    IF layer_idx >= Len(l.weights.layers) THEN 0
    ELSE l.ddr_weights_phys
         + Len(l.weights.token_embeddings) * 2
         + Len(l.weights.position_embeddings) * 2
         + LayersTotal(l.weights.layers, layer_idx)

\* the sizes the weight region is drawn with
RegionSizes == {0, 4, 8, 12, 64}

\* the physical address the weight region is drawn with
RegionBase == 4096

LoaderUnit(c, size) ==
    [kind |-> "loader",
     file |-> c,                  \* the bytes of model.pt.bin
     region |-> [phys |-> RegionBase, virt |-> TRUE, size |-> size],
     main_pc |-> "load",          \* load, allocate, copy, engine, exit, killed
     loader |-> WeightLoader,     \* weightLoader
     read |-> MagicOnly(0),       \* what line 240 left in header
     loadResult |-> "none",       \* none, true, false, crash
     allocResult |-> "none",      \* none, true, false
     copyResult |-> "none",       \* none, true, false
     writes |-> <<>>]             \* what copyToDDR wrote

LoaderInit ==
    ProgramInit /\ \E c \in Containers, size \in RegionSizes : unit = LoaderUnit(c, size)

\* main lines 223-229: loadFromBinary; false goes on without weights
MainLoad ==
    /\ unit.kind = "loader"
    /\ unit.main_pc = "load"
    /\ \E h \in ReadHeader(unit.file), co \in ReadChecksumOffset(unit.file) :
       \E crash \in ReadCrashes(unit.file, co) :
          LET r == loadFromBinary(unit.loader, h, co, crash)
          IN  unit' = [unit EXCEPT !.loader = r.loader,
                                   !.read = h,
                                   !.loadResult = r.result,
                                   !.main_pc = CASE r.result = "true" -> "allocate"
                                                 [] r.result = "false" -> "engine"
                                                 [] OTHER -> "killed"]
    /\ UNCHANGED programVars

\* main lines 230-236: allocateDDR with the weight region; false ends main
MainAllocate ==
    /\ unit.kind = "loader"
    /\ unit.main_pc = "allocate"
    /\ LET r == allocateDDR(unit.loader, unit.region.phys, unit.region.virt,
                            unit.region.size)
       IN  unit' = [unit EXCEPT !.loader = r.loader,
                                !.allocResult = IF r.ok THEN "true" ELSE "false",
                                !.main_pc = IF r.ok THEN "copy" ELSE "exit"]
    /\ UNCHANGED programVars

\* main lines 238-243: copyToDDR; false ends main
MainCopy ==
    /\ unit.kind = "loader"
    /\ unit.main_pc = "copy"
    /\ LET r == copyToDDR(unit.loader)
       IN  unit' = [unit EXCEPT !.copyResult = IF r.ok THEN "true" ELSE "false",
                                !.writes = r.writes,
                                !.main_pc = IF r.ok THEN "engine" ELSE "exit"]
    /\ UNCHANGED programVars

LoaderNext == MainLoad \/ MainAllocate \/ MainCopy

LoaderSpec == LoaderInit /\ [][LoaderNext]_vars

-----------------------------------------------------------------------------
(* C22 *)

\* the bytes a packed INT4 block of n weights takes
PackedBytes(n) == (n + 1) \div 2

\* C22: for every loaded model, layer_address(i+1) - layer_address(i) is the
\* serialized size of layer i, its six packed INT4 blocks and its four f16
\* layer-norm vectors, for every i with i + 1 < num_layers; and the address
\* of layer 0 is the region's physical base plus the f16 sizes of the token
\* and position embeddings.
C22_LayerAddress ==
    (unit.loader.loaded) =>
        LET l == unit.loader
            layers == l.weights.layers
        IN  /\ Len(layers) = l.weights.num_layers
            /\ \A i \in 0..(l.weights.num_layers - 1) :
                  i + 1 < l.weights.num_layers =>
                     getLayerAddress(l, i + 1) - getLayerAddress(l, i) =
                        PackedBytes(layers[i + 1].q_weights.num_weights)
                        + PackedBytes(layers[i + 1].k_weights.num_weights)
                        + PackedBytes(layers[i + 1].v_weights.num_weights)
                        + PackedBytes(layers[i + 1].o_weights.num_weights)
                        + PackedBytes(layers[i + 1].ffn_up.num_weights)
                        + PackedBytes(layers[i + 1].ffn_down.num_weights)
                        + 2 * (Len(layers[i + 1].ln1_weight) + Len(layers[i + 1].ln1_bias)
                               + Len(layers[i + 1].ln2_weight) + Len(layers[i + 1].ln2_bias))
            /\ l.weights.num_layers >= 1 =>
                  getLayerAddress(l, 0) =
                     l.ddr_weights_phys + 2 * Len(l.weights.token_embeddings)
                     + 2 * Len(l.weights.position_embeddings)

\* a model of two layers with non-empty embeddings and blocks has been loaded
\* and given its region: layer 1 lies behind layer 0, layer 0 behind the base
C22_Witness ==
    /\ unit.loader.loaded
    /\ unit.allocResult = "true"
    /\ unit.loader.weights.num_layers = 2
    /\ unit.loader.ddr_weights_phys = RegionBase
    /\ unit.loader.weights.layers[1].q_weights.data_size > 0
    /\ unit.loader.weights.layers[1].ffn_up.data_size > 0
    /\ getLayerAddress(unit.loader, 0) > RegionBase
    /\ getLayerAddress(unit.loader, 1) > getLayerAddress(unit.loader, 0)

-----------------------------------------------------------------------------
(* C23 *)

\* C23: staging into a region fails as insufficient exactly when the size
\* calculateDDRSize requires is greater than the region's size, and main then
\* ends; when the required size is at most the region's size, allocateDDR and
\* the copyToDDR that follows both return true.
C23_InsufficientDDR ==
    unit.allocResult # "none" =>
        LET required == calculateDDRSize(unit.loader)
        IN  /\ unit.allocResult = "false" <=> required > unit.region.size
            /\ unit.allocResult = "false" =>
                  unit.main_pc = "exit" /\ unit.copyResult = "none"
            /\ required <= unit.region.size =>
                  /\ unit.allocResult = "true"
                  /\ unit.main_pc \in {"copy", "engine"}
                  /\ unit.main_pc = "engine" => unit.copyResult = "true"
                  /\ copyToDDR(unit.loader).ok

\* a model that needs every byte of a non-empty region has been staged
C23_Witness ==
    /\ unit.allocResult = "true"
    /\ unit.copyResult = "true"
    /\ unit.region.size > 0
    /\ calculateDDRSize(unit.loader) = unit.region.size

-----------------------------------------------------------------------------
(* C24 *)

\* the sections of one layer in the order the weight stager lays them out
LayerSections ==
    <<"q", "k", "v", "o", "ffn_up", "ffn_down", "ln1_w", "ln1_b", "ln2_w", "ln2_b">>

\* the section and the layer of the k-th write of a model of n layers
SectionAt(k, n) ==
    IF k = 1 THEN <<"token_embeddings", -1>>
    ELSE IF k = 2 THEN <<"position_embeddings", -1>>
    ELSE IF k = 3 + 10 * n THEN <<"lm_head", -1>>
    ELSE <<LayerSections[((k - 3) % 10) + 1], (k - 3) \div 10>>

\* C24: a successful copyToDDR writes, contiguously from offset 0, the token
\* embeddings, the position embeddings, the ten sections of every layer and
\* the lm_head; layer i's q block is written at layer_address(i) minus the
\* region's base; the bytes written are the required DDR size.
C24_CopyLayout ==
    unit.copyResult = "true" =>
        LET w == unit.writes
            l == unit.loader
            n == l.weights.num_layers
        IN  /\ Len(w) = 3 + 10 * n
            /\ \A k \in 1..Len(w) : <<w[k].section, w[k].layer>> = SectionAt(k, n)
            /\ w[1].offset = 0
            /\ \A k \in 2..Len(w) : w[k].offset = w[k - 1].offset + w[k - 1].bytes
            /\ \A i \in 0..(n - 1) :
                  \E k \in 1..Len(w) :
                     /\ w[k].section = "q"
                     /\ w[k].layer = i
                     /\ w[k].offset = getLayerAddress(l, i) - l.ddr_weights_phys
            /\ WritesEnd(w, 0) = calculateDDRSize(l)

-----------------------------------------------------------------------------
(* C25 *)

\* C25: when the first four bytes of the container are not the magic,
\* loadFromBinary returns false, the loader stays not-loaded with nothing
\* parsed, a copyToDDR on it refuses and writes nothing, and main neither
\* ends nor stages anything but goes on to start the engine thread without
\* weights.
C25_BadMagic ==
    (unit.loadResult # "none" /\ unit.file.header.magic # MAGIC) =>
        /\ unit.loadResult = "false"
        /\ ~unit.loader.loaded
        /\ unit.loader = WeightLoader
        /\ ~copyToDDR(unit.loader).ok
        /\ copyToDDR(unit.loader).writes = <<>>
        /\ ~copyToDDR(allocateDDR(unit.loader, unit.region.phys, unit.region.virt,
                                  unit.region.size).loader).ok
        /\ unit.main_pc = "engine"
        /\ unit.allocResult = "none"
        /\ unit.copyResult = "none"

\* a complete container of two layers whose magic is off by one has been
\* refused and main has gone on
C25_Witness ==
    /\ unit.loadResult = "false"
    /\ unit.file.header.magic = MAGIC + 1
    /\ unit.file.cut = "none"
    /\ unit.file.header.num_layers = 2
    /\ unit.main_pc = "engine"

-----------------------------------------------------------------------------
(* C26 *)

\* C26: loading a container with the valid magic whose bytes end before the
\* header, the embeddings, a weight-block record or the checksum trailer is
\* complete fails: loadFromBinary returns false and the loader stays
\* not-loaded.
C26_Truncated ==
    (/\ unit.loadResult # "none"
     /\ unit.file.header.magic = MAGIC
     /\ unit.file.cut # "none") =>
        /\ unit.loadResult = "false"
        /\ ~unit.loader.loaded

-----------------------------------------------------------------------------
(* C27 *)

\* a size product that loadFromBinary forms from the header h does not fit
\* the 32-bit word: the two embedding sizes, and with at least one layer the
\* block sizes
Overflows(h) ==
    \/ h.vocab_size * h.hidden_size >= WordModulus
    \/ h.max_seq_len * h.hidden_size >= WordModulus
    \/ /\ h.num_layers >= 1
       /\ \/ h.hidden_size * h.hidden_size >= WordModulus
          \/ h.hidden_size * h.intermediate_size >= WordModulus

\* C27: when a size product formed from the header fields of a complete
\* container does not fit the 32-bit arithmetic it is formed in, loading
\* fails: loadFromBinary returns false and no tensor is sized with the
\* wrapped value.
C27_Overflow ==
    (/\ unit.loadResult # "none"
     /\ unit.file.header.magic = MAGIC
     /\ unit.file.cut = "none"
     /\ Overflows(unit.file.header)) =>
        /\ unit.loadResult = "false"
        /\ ~unit.loader.loaded
        /\ unit.loader.weights.token_embeddings = <<>>

-----------------------------------------------------------------------------
(* The memory regions.  main asks the memory manager for the four regions    *)
(* with these sizes; the engine thread passes the addresses of the input     *)
(* buffer, the output buffer and the KV cache to configure.  The memory      *)
(* manager (memory_manager.hpp) is not under src/: the address of the weight *)
(* region is the one the specification's DDR region table gives.             *)

weight_size == 1073741824
kv_cache_size == 536870912
input_size == 16384
output_size == 16384

\* MemoryManager::getWeightsPhysAddr(): weights at physical 0x1000_0000
WeightsPhysAddr == 268435456

Region(name, physical_address, size) ==
    [name |-> name, physical_address |-> physical_address, size |-> size]

\* the four regions the program uses once configure has run
MemoryMap(a) ==
    { Region("Weights", WeightsPhysAddr, weight_size),
      Region("KVCache", a.config.kv_cache_addr, kv_cache_size),
      Region("InputBuffer", a.config.input_buffer_addr, input_size),
      Region("OutputBuffer", a.config.output_buffer_addr, output_size) }

-----------------------------------------------------------------------------
(* C28 *)

\* C28: once the engine has configured the accelerator, the address ranges
\* [physical_address, physical_address + size) of the Weights, KVCache,
\* InputBuffer and OutputBuffer regions are pairwise disjoint, and every base
\* address is a multiple of 64.
C28_RegionsDisjoint ==
    pc # "start" =>
        /\ \A r \in MemoryMap(accel) : r.physical_address % 64 = 0
        /\ \A r1 \in MemoryMap(accel), r2 \in MemoryMap(accel) :
              r1.name # r2.name =>
                 \/ r1.physical_address + r1.size <= r2.physical_address
                 \/ r2.physical_address + r2.size <= r1.physical_address

-----------------------------------------------------------------------------
(* runGeneration over any accelerator.  In Spec the simulated driver never   *)
(* hands a token back, so the loop's token, EOS and MAX_TOKENS paths are not *)
(* taken there.  LoopSpec is the program with the value and out-parameter of *)
(* accel.getNextToken taken as any of the results its signature allows, the  *)
(* one the simulated driver gives among them: what holds in LoopSpec holds   *)
(* in Spec.                                                                  *)

\* the prompts the shell submits in LoopSpec
LoopTasks == 1

\* the console lines the shell reads in LoopSpec
LoopLines == 2

\* what a call of getNextToken hands back: no token yet, a token, EOS_TOKEN
NextTokenResults ==
    { [ok |-> FALSE, token |-> 0], [ok |-> TRUE, token |-> 101],
      [ok |-> TRUE, token |-> EOS_TOKEN] }

\* runGeneration lines 105-116 with the result of getNextToken drawn
LoopNextToken ==
    /\ pc = "gen_token"
    /\ \E out \in NextTokenResults :
          LET r == getNextToken(accel)
              g == genToken(out, trace, token_count)
          IN /\ accel' = r.accel
             /\ trace' = g.trace
             /\ token_count' = g.token_count
             /\ pc' = IF g.ret THEN "gen_ret" ELSE "gen_loop"
    /\ UNCHANGED <<commandQueue, taskQueue, state, task, cmd, shellVars, unit>>

\* the input loop of main, for the first LoopLines lines and LoopTasks prompts
LoopQuit == lines < LoopLines /\ ShellQuit

LoopStop == lines < LoopLines /\ ShellStop

LoopReset == lines < LoopLines /\ ShellReset

LoopPrompt == lines < LoopLines /\ nextTaskId <= LoopTasks /\ ShellPrompt

LoopEngine ==
    \/ EngineStart \/ EngineLoop \/ EngineTopCommand \/ EngineTopTask
    \/ EngineSetTaskId \/ EngineSetGenerating
    \/ GenInit \/ GenLoop \/ GenPollCommand \/ GenCheckCancel \/ LoopNextToken
    \/ EngineGenReturn \/ EngineClearTaskId \/ EngineExit

LoopNext ==
    LoopEngine \/ LoopQuit \/ LoopStop \/ LoopReset \/ LoopPrompt \/ ShellJoin

LoopSpec == Init /\ [][LoopNext]_vars

-----------------------------------------------------------------------------
(* C30 *)

\* C30: no generation streams more than MAX_TOKENS tokens, and when a
\* generation has returned, [Max tokens reached] has been emitted for it
\* exactly if MAX_TOKENS tokens were streamed for it with no EOS token and no
\* command popped in its loop; it is emitted at most once and only on return.
C30_MaxTokens ==
    LET seg == GenSegment(trace)
    IN  /\ CountEv(seg, {"token"}) <= MAX_TOKENS
        /\ token_count <= MAX_TOKENS
        /\ CountEv(seg, {"MaxTokens"}) <= 1
        /\ pc \in LoopPcs =>
              /\ CountEv(seg, {"MaxTokens"}) = 0
              /\ CountEv(seg, {"token"}) = token_count
        /\ pc = "gen_ret" =>
              (CountEv(seg, {"MaxTokens"}) = 1 <=>
                  /\ CountEv(seg, {"token"}) = MAX_TOKENS
                  /\ CountEv(seg, {"EOS"}) = 0
                  /\ ~cmd.popped)

\* a generation has returned after MAX_TOKENS tokens with the notice, while a
\* command that came too late still waits in the queue
C30_Witness ==
    /\ pc = "gen_ret"
    /\ CountEv(GenSegment(trace), {"token"}) = MAX_TOKENS
    /\ CountEv(GenSegment(trace), {"MaxTokens"}) = 1
    /\ trace[Len(trace)].ev = "MaxTokens"
    /\ ~empty(commandQueue)

-----------------------------------------------------------------------------
(* C29 *)

\* the engine has popped a task and has not yet called next_token for it
\* with a result: it is on its way into runGeneration, or at the loop test or
\* the tryPop of a pass before which nothing was streamed
BeforeFirstToken ==
    /\ pc \in {"set_id", "set_gen", "gen_init", "gen_loop", "gen_cmd"}
    /\ token_count = 0
    /\ pc \in {"gen_loop", "gen_cmd"} => CountEv(GenSegment(trace), {"token"}) = 0

\* a command waits in the CommandQueue while the engine is there
CommandWaits == BeforeFirstToken /\ ~empty(commandQueue)

\* the step that pops the waiting command in the loop: it is the oldest one,
\* it takes effect by setting cancelCurrent, nothing is streamed
PoppedInLoop ==
    /\ pc = "gen_cmd"
    /\ commandQueue'.count = commandQueue.count - 1
    /\ cmd' = [popped |-> TRUE, type |-> popItem(commandQueue).type]
    /\ state'.cancelCurrent
    /\ pc' \in {"gen_cancel", "gen_ret"}
    /\ CountEv(trace', {"token"}) = CountEv(trace, {"token"})

\* the command has been popped and the cancellation check is next
Cancelling == pc = "gen_cancel" /\ cmd.popped /\ state.cancelCurrent

\* C29: a command that is in the CommandQueue when the engine begins the
\* generation of a task stays ahead of the task's first next_token call: as
\* long as it waits the engine does not reach that call and streams nothing,
\* the next thing the loop does is pop it, and once popped it ends the
\* generation at the cancellation check, before next_token.
C29_PendingCommandFirst ==
    [][/\ CommandWaits => (CommandWaits' \/ PoppedInLoop)
       /\ Cancelling =>
             \/ Cancelling' /\ trace' = trace
             \/ /\ pc' = "gen_ret"
                /\ CountEv(trace', {"token"}) = CountEv(trace, {"token"})
       /\ pc' = "gen_token" => ~cmd'.popped /\ ~state'.cancelCurrent]_vars

\* a Stop that was pushed before the loop of the generation began has been
\* popped in the loop's first pass and has ended the generation, which
\* streamed nothing
C29_Witness ==
    /\ pc = "gen_ret"
    /\ cmd.popped
    /\ cmd.type = "STOP_CURRENT"
    /\ stopMark = -1
    /\ NonToken(GenSegment(trace)) = <<Ev("start", 1), Ev("Aborted", 0)>>
    /\ CountEv(GenSegment(trace), {"token"}) = 0

-----------------------------------------------------------------------------
(* accelerator.hpp at the level of writeReg: what each driver operation      *)
(* writes, in the order it writes it.  writeReg prints and stores nothing;   *)
(* the effects of an operation are the sequence of its writeReg calls and    *)
(* of its stores into input_buffer.  The driver d is the cached ConfigIn,    *)
(* config_words and input_buffer; words are scaled to 0..WordModulus-1.      *)

XACCELERATOR_CTRL_ADDR_AP_CTRL == 0
XACCELERATOR_AP_CTRL_START == 1
XACCELERATOR_CONFIG_IN_BASE == 16
XACCELERATOR_CONFIG_IN_WORDS == 38
XACCELERATOR_IRQ_CLEAR_IN == 212

XACCELERATOR_CONFIG_IN_OFFSET(n) == XACCELERATOR_CONFIG_IN_BASE + n * 4

\* one writeReg(offset, value)
RegWrite(offset, value) == [what |-> "reg", at |-> offset, value |-> value]

\* one input_buffer[i] = value
BufWrite(i, value) == [what |-> "buf", at |-> i, value |-> value]

\* Accelerator(): config zeroed by ConfigIn(), config_words by memset
RegDriver ==
    [config |-> ConfigIn,
     config_words |-> [i \in 0..37 |-> 0],
     input_buffer |-> [i \in 0..(InputSize - 1) |-> 0]]

\* configure: five members set, pack, then the loop over all words
regConfigure(d, input_addr, output_addr, kv_cache_addr, stride, max_tokens) ==
    LET c == [d.config EXCEPT !.input_buffer_addr = input_addr,
                              !.output_buffer_addr = output_addr,
                              !.kv_cache_addr = kv_cache_addr,
                              !.stride = stride,
                              !.max_tokens = max_tokens]
        w == ConfigIn_pack(c)
    IN  [d |-> [d EXCEPT !.config = c, !.config_words = w],
         writes |-> [i \in 1..XACCELERATOR_CONFIG_IN_WORDS |->
                        RegWrite(XACCELERATOR_CONFIG_IN_OFFSET(i - 1), w[i - 1])]]

\* setTaskConfig that leaves the write of word 15 (task_id) out
regSetTaskConfig_SkipsTaskId(d, task_id, prompt_len) ==
    LET c == [d.config EXCEPT !.task_id = task_id,
                              !.prompt_length = prompt_len,
                              !.task_type = 0]
        w == ConfigIn_pack(c)
    IN  [d |-> [d EXCEPT !.config = c, !.config_words = w],
         writes |-> << RegWrite(XACCELERATOR_CONFIG_IN_OFFSET(14), w[14]),
                       RegWrite(XACCELERATOR_CONFIG_IN_OFFSET(16), w[16]) >>]

\* setTaskConfig: three members set, pack, then words 14, 15 and 16
regSetTaskConfig(d, task_id, prompt_len) ==
    LET c == [d.config EXCEPT !.task_id = task_id,
                              !.prompt_length = prompt_len,
                              !.task_type = 0]
        w == ConfigIn_pack(c)
    IN  [d |-> [d EXCEPT !.config = c, !.config_words = w],
         writes |-> << RegWrite(XACCELERATOR_CONFIG_IN_OFFSET(14), w[14]),
                       RegWrite(XACCELERATOR_CONFIG_IN_OFFSET(15), w[15]),
                       RegWrite(XACCELERATOR_CONFIG_IN_OFFSET(16), w[16]) >>]

\* the number of tokens the loop of lines 115-117 stores
Staged(tokens) == IF Len(tokens) < InputSize THEN Len(tokens) ELSE InputSize

\* startInference that writes START before it stages the prompt
regStartInference_StartFirst(d, task_id, tokens) ==
    LET s == regSetTaskConfig(d, task_id, Len(tokens))
    IN  [d |-> [s.d EXCEPT !.input_buffer =
                   [i \in 0..(InputSize - 1) |->
                       IF i < Len(tokens) THEN tokens[i + 1] ELSE d.input_buffer[i]]],
         writes |-> s.writes
                    \o << RegWrite(XACCELERATOR_CTRL_ADDR_AP_CTRL, XACCELERATOR_AP_CTRL_START) >>
                    \o [i \in 1..Staged(tokens) |-> BufWrite(i - 1, tokens[i])]]

\* startInference: setTaskConfig with tokens.size(), the staging loop, START
regStartInference(d, task_id, tokens) ==
    LET s == regSetTaskConfig(d, task_id, Len(tokens))
    IN  [d |-> [s.d EXCEPT !.input_buffer =
                   [i \in 0..(InputSize - 1) |->
                       IF i < Len(tokens) THEN tokens[i + 1] ELSE d.input_buffer[i]]],
         writes |-> s.writes
                    \o [i \in 1..Staged(tokens) |-> BufWrite(i - 1, tokens[i])]
                    \o << RegWrite(XACCELERATOR_CTRL_ADDR_AP_CTRL, XACCELERATOR_AP_CTRL_START) >>]

\* readStatus and getNextToken call readReg only
regReadStatus(d) == [d |-> d, writes |-> <<>>]

regGetNextToken(d) == [d |-> d, writes |-> <<>>]

\* reset: all-ones to the IRQ-clear register, 0 to AP_CTRL
regReset(d) ==
    [d |-> d,
     writes |-> << RegWrite(XACCELERATOR_IRQ_CLEAR_IN, -1),
                   RegWrite(XACCELERATOR_CTRL_ADDR_AP_CTRL, 0) >>]

\* the prompts startInference is called with: empty, shorter than the input
\* buffer, filling it, and one token longer than it
RegPrompts == { [i \in 1..n |-> 103 + i] : n \in 0..(InputSize + 1) }

\* the task ids startInference and setTaskConfig are called with
RegTaskIds == {1, WordModulus - 1}

\* the last value written to each config register, -1 while none was
LastWritten(regs, writes) ==
    [n \in 0..37 |->
        LET hits == { k \in DOMAIN writes :
                        /\ writes[k].what = "reg"
                        /\ writes[k].at = XACCELERATOR_CONFIG_IN_OFFSET(n) }
        IN  IF hits = {} THEN regs[n]
            ELSE writes[CHOOSE k \in hits : \A j \in hits : j <= k].value]

RegUnit ==
    [kind |-> "regs",
     d |-> RegDriver,
     regs |-> [n \in 0..37 |-> -1],  \* last value written per config register
     configured |-> FALSE,           \* configure has been called
     op |-> "none",                  \* the last operation called
     task_id |-> 0,                  \* its arguments
     tokens |-> <<>>,
     writes |-> <<>>]                \* what it wrote, in order

RegInit == ProgramInit /\ unit = RegUnit

\* the unit after an operation with result r
RegAfter(r, op, task_id, tokens) ==
    [unit EXCEPT !.d = r.d,
                 !.regs = LastWritten(unit.regs, r.writes),
                 !.configured = unit.configured \/ op = "configure",
                 !.op = op, !.task_id = task_id, !.tokens = tokens,
                 !.writes = r.writes]

RegConfigure ==
    /\ unit.kind = "regs"
    /\ \E a \in Addresses, s \in Words32, m \in Words32 :
          unit' = RegAfter(regConfigure(unit.d, a, 1, WordModulus, s, m),
                           "configure", 0, <<>>)
    /\ UNCHANGED programVars

RegSetTaskConfig ==
    /\ unit.kind = "regs"
    /\ \E id \in RegTaskIds, n \in 0..(InputSize + 1) :
          unit' = RegAfter(regSetTaskConfig(unit.d, id, n), "setTaskConfig", id, <<>>)
    /\ UNCHANGED programVars

RegStartInference ==
    /\ unit.kind = "regs"
    /\ \E id \in RegTaskIds, t \in RegPrompts :
          unit' = RegAfter(regStartInference(unit.d, id, t), "startInference", id, t)
    /\ UNCHANGED programVars

RegReadStatus ==
    /\ unit.kind = "regs"
    /\ unit' = RegAfter(regReadStatus(unit.d), "readStatus", 0, <<>>)
    /\ UNCHANGED programVars

RegGetNextToken ==
    /\ unit.kind = "regs"
    /\ unit' = RegAfter(regGetNextToken(unit.d), "getNextToken", 0, <<>>)
    /\ UNCHANGED programVars

RegReset ==
    /\ unit.kind = "regs"
    /\ unit' = RegAfter(regReset(unit.d), "reset", 0, <<>>)
    /\ UNCHANGED programVars

RegNext ==
    \/ RegConfigure \/ RegSetTaskConfig \/ RegStartInference
    \/ RegReadStatus \/ RegGetNextToken \/ RegReset

RegSpec == RegInit /\ [][RegNext]_vars

-----------------------------------------------------------------------------
(* C31 *)

\* C31: a startInference call writes config words 14, 15 and 16 (prompt
\* length, task id, task type), then stages the prompt tokens into the input
\* buffer in order, then writes START (0x01) to AP_CTRL, once and last;
\* configure, setTaskConfig, readStatus and getNextToken never write START;
\* configure writes the 38 config words in ascending offset and nothing to
\* AP_CTRL.
C31_StartOrder ==
    LET w == unit.writes
    IN  /\ unit.op = "startInference" =>
              LET n == IF Len(unit.tokens) < InputSize THEN Len(unit.tokens)
                       ELSE InputSize
              IN  /\ Len(w) = 3 + n + 1
                  /\ w[1] = [what |-> "reg", at |-> 72, value |-> Len(unit.tokens)]
                  /\ w[2] = [what |-> "reg", at |-> 76, value |-> unit.task_id]
                  /\ w[3] = [what |-> "reg", at |-> 80, value |-> 0]
                  /\ \A i \in 1..n :
                        w[3 + i] = [what |-> "buf", at |-> i - 1, value |-> unit.tokens[i]]
                  /\ w[Len(w)] = [what |-> "reg", at |-> 0, value |-> 1]
                  /\ Cardinality({ k \in DOMAIN w : w[k].what = "reg" /\ w[k].at = 0 }) = 1
        /\ unit.op \in {"configure", "setTaskConfig", "readStatus", "getNextToken"} =>
              \A k \in DOMAIN w : ~(w[k].what = "reg" /\ w[k].at = 0)
        /\ unit.op = "configure" =>
              /\ Len(w) = 38
              /\ \A i \in 1..38 : w[i].what = "reg" /\ w[i].at = 16 + 4 * (i - 1)

\* after a configure, a prompt that fills the input buffer has been started
C31_Witness ==
    /\ unit.op = "startInference"
    /\ unit.configured
    /\ Len(unit.tokens) = InputSize
    /\ unit.task_id = WordModulus - 1
    /\ Len(unit.writes) = InputSize + 4
    /\ unit.writes[4].what = "buf"

-----------------------------------------------------------------------------
(* C32 *)

\* C32: once configure has been called, after every further operation the
\* value last written to config register n is word n of pack(cached ConfigIn),
\* for every n in 0..37; setTaskConfig writes words 14, 15 and 16 and no
\* other, and these are all the words its call changed.
C32_RegistersFollowConfig ==
    /\ unit.configured =>
          /\ \A n \in 0..37 : unit.regs[n] = ConfigIn_pack(unit.d.config)[n]
          /\ unit.d.config_words = ConfigIn_pack(unit.d.config)
    /\ unit.op = "setTaskConfig" =>
          /\ [k \in DOMAIN unit.writes |-> unit.writes[k].at] = <<72, 76, 80>>
          /\ unit.d.config.task_id = unit.task_id
          /\ unit.d.config.task_type = 0
          /\ unit.writes[1].value = unit.d.config.prompt_length
          /\ unit.writes[2].value = unit.task_id

\* after configure with a non-zero stride, setTaskConfig has put a non-zero
\* task id and prompt length into registers 15 and 14
C32_Witness ==
    /\ unit.configured
    /\ unit.op = "setTaskConfig"
    /\ unit.regs[6] # 0
    /\ unit.regs[0] = 1
    /\ unit.regs[14] = InputSize + 1
    /\ unit.regs[15] = WordModulus - 1

-----------------------------------------------------------------------------
(* C37 *)

\* C37: after every startInference call the prompt_length written to the
\* device's configuration is the number of prompt tokens staged into the
\* input buffer, also for a prompt longer than the buffer, and the staged
\* tokens are the first tokens of the prompt in order.
C37_PromptLengthIsStaged ==
    unit.op = "startInference" =>
        LET staged == { k \in DOMAIN unit.writes : unit.writes[k].what = "buf" }
        IN  /\ unit.regs[14] = Cardinality(staged)
            /\ unit.d.config.prompt_length = Cardinality(staged)
            /\ \A i \in 0..(Cardinality(staged) - 1) :
                  unit.d.input_buffer[i] = unit.tokens[i + 1]

-----------------------------------------------------------------------------
(* WeightLoader: allocateDDR and copyToDDR called in any order *)

\* a WeightLoader whose loadFromBinary returned true, before any other call
DdrUnit(l) ==
    [kind |-> "ddr",
     loader |-> l,
     op |-> "none",               \* the last call: allocateDDR, copyToDDR
     allocResult |-> "none",      \* what the last allocateDDR returned
     copyResult |-> "none",       \* what the last copyToDDR returned
     writes |-> <<>>]             \* what the last copyToDDR wrote

DdrInit ==
    /\ ProgramInit
    /\ \E c \in Containers :
       \E h \in ReadHeader(c), co \in ReadChecksumOffset(c) :
       \E crash \in ReadCrashes(c, co) :
          LET r == loadFromBinary(WeightLoader, h, co, crash)
          IN  /\ r.result = "true"
              /\ unit = DdrUnit(r.loader)

\* a call of allocateDDR with a mapped region of any of the sizes
DdrAllocate ==
    /\ unit.kind = "ddr"
    /\ \E size \in RegionSizes :
          LET r == allocateDDR(unit.loader, RegionBase, TRUE, size)
          IN  unit' = [unit EXCEPT !.loader = r.loader,
                                   !.op = "allocateDDR",
                                   !.allocResult = IF r.ok THEN "true" ELSE "false"]
    /\ UNCHANGED programVars

\* a call of copyToDDR
DdrCopy ==
    /\ unit.kind = "ddr"
    /\ LET r == copyToDDR(unit.loader)
       IN  unit' = [unit EXCEPT !.op = "copyToDDR",
                                !.copyResult = IF r.ok THEN "true" ELSE "false",
                                !.writes = r.writes]
    /\ UNCHANGED programVars

DdrNext == DdrAllocate \/ DdrCopy

DdrSpec == DdrInit /\ [][DdrNext]_vars

-----------------------------------------------------------------------------
(* C38 *)

\* C38: for any order of allocateDDR and copyToDDR calls on a loaded model,
\* copyToDDR writes no byte at an offset at or past the size of the DDR
\* region; after allocateDDR returned false for an undersized region, a
\* following copyToDDR writes nothing.
C38_CopyWithinRegion ==
    unit.op = "copyToDDR" =>
        /\ \A k \in DOMAIN unit.writes :
              unit.writes[k].bytes > 0 =>
                 unit.writes[k].offset + unit.writes[k].bytes
                    <= unit.loader.ddr_weights_size
        /\ unit.allocResult = "false" =>
              \A k \in DOMAIN unit.writes : unit.writes[k].bytes = 0

-----------------------------------------------------------------------------
(* float_to_fp16 *)

\* a float by the fields of its 32 bits: bit 31, bits 23..30, bits 0..22
FloatBits(sign, exp, mantissa) == [sign |-> sign, exp |-> exp, mantissa |-> mantissa]

\* the conversion of an unsigned value to int16_t
ToInt16(x) ==
    LET y == x % 65536 IN IF y >= 32768 THEN y - 65536 ELSE y

\* the conversion of a value to uint16_t
ToUint16(x) == x % 65536

RECURSIVE BitOr(_, _)
\* a | b of two unsigned values
BitOr(a, b) ==
    IF a = 0 THEN b
    ELSE IF b = 0 THEN a
    ELSE (IF a % 2 = 1 \/ b % 2 = 1 THEN 1 ELSE 0) + 2 * BitOr(a \div 2, b \div 2)

\* float_to_fp16 without the underflow return
float_to_fp16_NoUnderflow(value) ==
    LET new_exp == ToInt16(value.exp + 65536 - 127 + 15)
    IN  IF new_exp >= 31 THEN ToUint16(BitOr(value.sign * 32768, 31744))
        ELSE ToUint16(BitOr(BitOr(value.sign * 32768, (new_exp * 1024) % 65536),
                            value.mantissa \div 8192))

\* float_to_fp16: sign, exp and mantissa are taken from the bits, the
\* exponent is rebiased in an int16_t, and the three fields are or-ed
float_to_fp16(value) ==
    LET new_exp == ToInt16(value.exp + 65536 - 127 + 15)
    IN  IF new_exp <= 0 THEN 0
        ELSE IF new_exp >= 31 THEN ToUint16(BitOr(value.sign * 32768, 31744))
        ELSE ToUint16(BitOr(BitOr(value.sign * 32768, new_exp * 1024),
                            value.mantissa \div 8192))

\* the mantissas the floats are drawn with: the ends, the lowest bit that is
\* kept, the highest that is dropped, a middle one
Mantissas == {0, 1, 8191, 8192, 4194304, 5592405, 8388607}

Fp16Unit(value) == [kind |-> "fp16", value |-> value, converted |-> FALSE, result |-> 0]

Fp16Init ==
    /\ ProgramInit
    /\ \E sign \in {0, 1}, exp \in 0..255, mantissa \in Mantissas :
          unit = Fp16Unit(FloatBits(sign, exp, mantissa))

\* a call of float_to_fp16, as copyToDDR makes for every FP32 weight
Fp16Convert ==
    /\ unit.kind = "fp16"
    /\ ~unit.converted
    /\ unit' = [unit EXCEPT !.converted = TRUE, !.result = float_to_fp16(unit.value)]
    /\ UNCHANGED programVars

Fp16Next == Fp16Convert

Fp16Spec == Fp16Init /\ [][Fp16Next]_vars

-----------------------------------------------------------------------------
(* C35 *)

\* C35: float_to_fp16 returns 0 when e - 112 <= 0, (s << 15) | 0x7C00 when
\* e - 112 >= 31, and otherwise (s << 15) | ((e - 112) << 10) | (m >> 13),
\* for sign s, biased exponent e and 23-bit mantissa m of the input; the
\* result fits in 16 bits.
C35_Fp16 ==
    unit.converted =>
        LET s == unit.value.sign
            e == unit.value.exp
            m == unit.value.mantissa
        IN  /\ unit.result \in 0..65535
            /\ e - 112 <= 0 => unit.result = 0
            /\ e - 112 >= 31 => unit.result = s * 32768 + 31744
            /\ (e - 112 > 0 /\ e - 112 < 31) =>
                  /\ unit.result \div 32768 = s
                  /\ (unit.result \div 1024) % 32 = e - 112
                  /\ unit.result % 1024 = m \div 8192

\* a negative normal float with mantissa bits on both sides of bit 13 has
\* been converted: -1.333..., 0xBFD55555, gives 0xBEAA
C35_Witness ==
    /\ unit.converted
    /\ unit.value.sign = 1
    /\ unit.value.exp = 127
    /\ unit.value.mantissa = 5592405
    /\ unit.result = 48810

-----------------------------------------------------------------------------
(* C36 *)

\* the first input line was "/stop": the Stop is in the command queue and no
\* task has been created yet, so no generation has ever run
StopEnteredFirst ==
    /\ lines = 1
    /\ nextTaskId = 1
    /\ Contents(commandQueue, CmdCapacity) = <<Command("STOP_CURRENT")>>

\* the only two input lines were a "/stop" and a prompt, and the prompt's
\* generation has printed [Aborted]
OnlyTaskAborted ==
    /\ lines = 2
    /\ nextTaskId = 2
    /\ CountEv(trace, {"Aborted"}) >= 1

\* C36: a Stop the shell enqueues before it enqueues task T, both while no
\* generation is running, never aborts T under any interleaving of the shell
\* and the engine: once the first line was a Stop and the second the prompt
\* of T, T's generation is never ended by [Aborted].
C36_StaleStopIsNoOp == [](StopEnteredFirst => []~OnlyTaskAborted)

-----------------------------------------------------------------------------
(* interrupt_handler.hpp: InterruptHandler, its caller, its service thread
   and the device's interrupt registers. The class is compiled with or
   without REAL_HARDWARE; both builds are modelled. *)

\* the number of complete counter reads the service thread is followed for
IrqWakeups == 1

\* the status bits handleInterrupt looks at: ap_done, ap_ready, token ready,
\* error
IsrBits == {1, 2, 4, 8}

RECURSIVE BitAnd(_, _)
\* a & b of two unsigned values
BitAnd(a, b) ==
    IF a = 0 \/ b = 0 THEN 0
    ELSE (IF a % 2 = 1 /\ b % 2 = 1 THEN 1 ELSE 0) + 2 * BitAnd(a \div 2, b \div 2)

\* the bits of IsrBits that are set in a value
Asserted(v) == { b \in IsrBits : BitAnd(v, b) # 0 }

\* lines 153-156: the members after construction; callbacks is the set of
\* bits whose callback has been registered with onDone, onReady, onToken,
\* onError
InterruptHandler(callbacks) ==
    [uio_fd |-> -1, enabled |-> FALSE, running |-> FALSE, reg_base |-> FALSE,
     callbacks |-> callbacks, sim_counter |-> 0,
     total_interrupts |-> 0, done_count |-> 0, ready_count |-> 0,
     token_count |-> 0, error_count |-> 0]

\* the device's GIE, IER and ISR registers and whether the UIO descriptor
\* is open
IrqDevice == [GIE |-> 0, IER |-> 0, ISR |-> 0, open |-> FALSE]

\* lines 92-105: the ISR register in a REAL_HARDWARE build with a register
\* window, else 0x01 on every tenth call and 0 on the others
readISR(real, h, dev) ==
    IF real /\ h.reg_base
    THEN [value |-> dev.ISR, h |-> h]
    ELSE [value |-> IF h.sim_counter % 10 = 0 THEN 1 ELSE 0,
          h |-> [h EXCEPT !.sim_counter = h.sim_counter + 1]]

\* clearISR that writes all four status bits
clearISR_AllBits(real, h, dev, mask) ==
    IF real /\ h.reg_base
    THEN [dev EXCEPT !.ISR = dev.ISR - BitAnd(dev.ISR, 15)]
    ELSE dev

\* lines 107-116: write-1-to-clear of the mask in a REAL_HARDWARE build with
\* a register window, else a printf
clearISR(real, h, dev, mask) ==
    IF real /\ h.reg_base
    THEN [dev EXCEPT !.ISR = dev.ISR - BitAnd(dev.ISR, mask)]
    ELSE dev

\* handleInterrupt that calls every registered callback
handleInterrupt_All(h, isr) ==
    [h |-> h,
     called |-> (IF 1 \in h.callbacks THEN <<1>> ELSE <<>>)
                \o (IF 2 \in h.callbacks THEN <<2>> ELSE <<>>)
                \o (IF 4 \in h.callbacks THEN <<4>> ELSE <<>>)
                \o (IF 8 \in h.callbacks THEN <<8>> ELSE <<>>)]

\* lines 118-150: for each of the four bits set in isr its counter is
\* incremented and its callback, when registered, is called
handleInterrupt(h, isr) ==
    [h |-> [h EXCEPT
              !.done_count = IF BitAnd(isr, 1) # 0 THEN @ + 1 ELSE @,
              !.ready_count = IF BitAnd(isr, 2) # 0 THEN @ + 1 ELSE @,
              !.token_count = IF BitAnd(isr, 4) # 0 THEN @ + 1 ELSE @,
              !.error_count = IF BitAnd(isr, 8) # 0 THEN @ + 1 ELSE @],
     called |-> (IF BitAnd(isr, 1) # 0 /\ 1 \in h.callbacks THEN <<1>> ELSE <<>>)
                \o (IF BitAnd(isr, 2) # 0 /\ 2 \in h.callbacks THEN <<2>> ELSE <<>>)
                \o (IF BitAnd(isr, 4) # 0 /\ 4 \in h.callbacks THEN <<4>> ELSE <<>>)
                \o (IF BitAnd(isr, 8) # 0 /\ 8 \in h.callbacks THEN <<8>> ELSE <<>>)]

\* the callbacks the handler is drawn with
CallbackSets == { {}, {1, 8}, {1, 2, 4, 8} }

\* what one wakeup has done so far: the value readISR returned, the
\* callbacks called, the mask given to clearISR, and the order of the three
NoWake == [isr |-> 0, called |-> <<>>, mask |-> 0, steps |-> <<>>]

\* the thread positions at which the service thread has been created and has
\* not returned from irqServiceThread
AlivePcs == {"check", "poll", "read", "read_isr", "dispatch", "clear"}

IrqUnit(real, callbacks) ==
    [kind |-> "irq",
     real |-> real,               \* the build: compiled with REAL_HARDWARE
     h |-> InterruptHandler(callbacks),
     dev |-> IrqDevice,
     caller_pc |-> "idle",        \* idle, stop_join, stop_hw
     t_pc |-> "none",             \* none, the AlivePcs, exited, joined
     alive |-> 0,                 \* service threads created and not returned
     isr |-> 0,                   \* irqServiceThread's local isr
     wake |-> NoWake,
     wakeups |-> 0,               \* complete counter reads so far
     stopSteps |-> <<>>,          \* what the last stop() did, in order, until
                                  \* the next init()
     stopped |-> FALSE,           \* stop() has returned and init() has not
                                  \* been called since
     lastStart |-> "none",        \* what the last start() since init() returned
     pollsSinceClear |-> 0]       \* polls begun since stop() cleared running

IrqInit ==
    /\ ProgramInit
    /\ \E real \in BOOLEAN, callbacks \in CallbackSets : unit = IrqUnit(real, callbacks)

\* lines 162-194: init(uio_device, registers), called while no service
\* thread runs; in a REAL_HARDWARE build open may fail
IrqCallInit ==
    /\ unit.kind = "irq"
    /\ unit.caller_pc = "idle"
    /\ ~unit.h.running
    /\ \E registers \in BOOLEAN, opened \in BOOLEAN :
          IF unit.real
          THEN IF ~opened
               THEN unit' = [unit EXCEPT !.h.reg_base = registers, !.h.uio_fd = -1,
                                         !.stopped = FALSE, !.stopSteps = <<>>,
                                       !.lastStart = "none"]
               ELSE unit' = [unit EXCEPT !.h.reg_base = registers, !.h.uio_fd = 3,
                                         !.h.enabled = TRUE,
                                         !.dev.open = TRUE,
                                         !.dev.GIE = IF registers THEN 1 ELSE @,
                                         !.dev.IER = IF registers THEN 3 ELSE @,
                                         !.stopped = FALSE, !.stopSteps = <<>>,
                                       !.lastStart = "none"]
          ELSE /\ opened
               /\ unit' = [unit EXCEPT !.h.reg_base = registers, !.h.uio_fd = 0,
                                       !.h.enabled = TRUE, !.stopped = FALSE, !.stopSteps = <<>>,
                                       !.lastStart = "none"]
    /\ UNCHANGED programVars

\* lines 197-213: start()
IrqCallStart ==
    /\ unit.kind = "irq"
    /\ unit.caller_pc = "idle"
    /\ IF ~unit.h.enabled
       THEN unit' = [unit EXCEPT !.lastStart = "false"]
       ELSE IF unit.h.running
            THEN unit' = [unit EXCEPT !.lastStart = "true"]
            ELSE unit' = [unit EXCEPT !.h.running = TRUE,
                                      !.t_pc = "check",
                                      !.alive = @ + 1,
                                      !.lastStart = "true"]
    /\ UNCHANGED programVars

\* stop() that does not join the service thread
IrqStopBegin_NoJoin ==
    /\ unit.kind = "irq"
    /\ unit.caller_pc = "idle"
    /\ IF unit.h.running
       THEN unit' = [unit EXCEPT !.h.running = FALSE,
                                 !.caller_pc = "stop_hw",
                                 !.pollsSinceClear = 0,
                                 !.stopSteps = <<"running", "join">>]
       ELSE unit' = [unit EXCEPT !.caller_pc = "stop_hw", !.stopSteps = <<>>]
    /\ UNCHANGED programVars

\* lines 216-219: stop() tests running and clears it
IrqStopBegin ==
    /\ unit.kind = "irq"
    /\ unit.caller_pc = "idle"
    /\ IF unit.h.running
       THEN unit' = [unit EXCEPT !.h.running = FALSE,
                                 !.caller_pc = "stop_join",
                                 !.pollsSinceClear = 0,
                                 !.stopSteps = <<"running">>]
       ELSE unit' = [unit EXCEPT !.caller_pc = "stop_hw", !.stopSteps = <<>>]
    /\ UNCHANGED programVars

\* lines 221-223: join returns once the service thread has returned
IrqStopJoin ==
    /\ unit.kind = "irq"
    /\ unit.caller_pc = "stop_join"
    /\ unit.t_pc = "exited"
    /\ unit' = [unit EXCEPT !.t_pc = "joined",
                            !.caller_pc = "stop_hw",
                            !.pollsSinceClear = 0,
                            !.stopSteps = Append(@, "join")]
    /\ UNCHANGED programVars

\* lines 226-239: in a REAL_HARDWARE build with an open descriptor GIE and
\* IER are cleared and the descriptor is closed; enabled is cleared
IrqStopHw ==
    /\ unit.kind = "irq"
    /\ unit.caller_pc = "stop_hw"
    /\ IF unit.real /\ unit.h.uio_fd >= 0
       THEN unit' = [unit EXCEPT
                       !.dev.GIE = IF unit.h.reg_base THEN 0 ELSE @,
                       !.dev.IER = IF unit.h.reg_base THEN 0 ELSE @,
                       !.dev.open = FALSE,
                       !.h.uio_fd = -1,
                       !.h.enabled = FALSE,
                       !.stopSteps = @ \o (IF unit.h.reg_base THEN <<"GIE", "IER">>
                                            ELSE <<>>) \o <<"close">>,
                       !.caller_pc = "idle",
                       !.stopped = TRUE]
       ELSE unit' = [unit EXCEPT !.h.enabled = FALSE,
                                 !.caller_pc = "idle",
                                 !.stopped = TRUE]
    /\ UNCHANGED programVars

\* line 56: while (running); line 88: the thread returns. What the last
\* wakeup did is forgotten here.
IrqCheck ==
    /\ unit.kind = "irq"
    /\ unit.t_pc = "check"
    /\ IF unit.h.running
       THEN unit' = [unit EXCEPT !.t_pc = "poll", !.wake = NoWake]
       ELSE unit' = [unit EXCEPT !.t_pc = "exited", !.alive = @ - 1, !.wake = NoWake]
    /\ UNCHANGED programVars

\* lines 58-69: poll with a timeout of one second: an error leaves the
\* loop, a timeout or an event other than POLLIN goes round it
IrqPoll ==
    /\ unit.kind = "irq"
    /\ unit.t_pc = "poll"
    /\ unit.pollsSinceClear < 2
    /\ \E ret \in {"error", "timeout", "pollin", "other"} :
          unit' = [unit EXCEPT
                     !.t_pc = CASE ret = "error" -> "exited"
                                [] ret = "pollin" -> "read"
                                [] OTHER -> "check",
                     !.alive = IF ret = "error" THEN @ - 1 ELSE @,
                     !.pollsSinceClear = IF unit.caller_pc = "stop_join"
                                         THEN @ + 1 ELSE @]
    /\ UNCHANGED programVars

\* lines 70-75, 82-84: the read of the 4-byte interrupt counter
IrqRead ==
    /\ unit.kind = "irq"
    /\ unit.t_pc = "read"
    /\ \E complete \in BOOLEAN :
          IF complete
          THEN /\ unit.wakeups < IrqWakeups
               /\ unit' = [unit EXCEPT !.h.total_interrupts = @ + 1,
                                       !.wakeups = @ + 1,
                                       !.wake = NoWake,
                                       !.t_pc = "read_isr"]
          ELSE unit' = [unit EXCEPT !.t_pc = "check"]
    /\ UNCHANGED programVars

\* line 77: isr = readISR()
IrqReadISR ==
    /\ unit.kind = "irq"
    /\ unit.t_pc = "read_isr"
    /\ LET r == readISR(unit.real, unit.h, unit.dev)
       IN  unit' = [unit EXCEPT !.h = r.h,
                                !.isr = r.value,
                                !.wake.isr = r.value,
                                !.wake.steps = Append(@, "readISR"),
                                !.t_pc = "dispatch"]
    /\ UNCHANGED programVars

\* line 79: handleInterrupt(isr)
IrqHandle ==
    /\ unit.kind = "irq"
    /\ unit.t_pc = "dispatch"
    /\ LET r == handleInterrupt(unit.h, unit.isr)
       IN  unit' = [unit EXCEPT !.h = r.h,
                                !.wake.called = @ \o r.called,
                                !.wake.steps = Append(@, "dispatch"),
                                !.t_pc = "clear"]
    /\ UNCHANGED programVars

\* line 81: clearISR(isr); the local isr ends with the block
IrqClear ==
    /\ unit.kind = "irq"
    /\ unit.t_pc = "clear"
    /\ unit' = [unit EXCEPT !.dev = clearISR(unit.real, unit.h, unit.dev, unit.isr),
                            !.wake.mask = unit.isr,
                            !.wake.steps = Append(@, "clearISR"),
                            !.isr = 0,
                            !.t_pc = "check"]
    /\ UNCHANGED programVars

\* the device asserts one of its status bits
IrqDeviceAssert ==
    /\ unit.kind = "irq"
    /\ unit.real
    /\ \E b \in IsrBits :
          /\ BitAnd(unit.dev.ISR, b) = 0
          /\ unit' = [unit EXCEPT !.dev.ISR = @ + b]
    /\ UNCHANGED programVars

IrqCaller == IrqCallInit \/ IrqCallStart \/ IrqStopBegin \/ IrqStopJoin \/ IrqStopHw

IrqThread == IrqCheck \/ IrqPoll \/ IrqRead \/ IrqReadISR \/ IrqHandle \/ IrqClear

IrqNext == IrqCaller \/ IrqThread \/ IrqDeviceAssert

IrqSpec == IrqInit /\ [][IrqNext]_vars

\* the service thread is scheduled as long as it can take a step, its poll
\* returning after a second at the latest, and a stop() that has begun goes on
IrqFairSpec == IrqSpec /\ WF_vars(IrqThread) /\ WF_vars(IrqStopJoin \/ IrqStopHw)

-----------------------------------------------------------------------------
(* C33 *)

\* the callbacks of a wakeup, as a set
Called == { unit.wake.called[k] : k \in DOMAIN unit.wake.called }

\* the service thread takes its clearISR step
ClearStep == unit.t_pc = "clear" /\ unit'.t_pc = "check"

\* C33: on every wakeup with a complete 4-byte counter read the steps are
\* read ISR, dispatch callbacks, clear ISR, in this order; a registered
\* callback is called for exactly the bits among DONE, READY, TOKEN_READY,
\* ERROR that are set in the value read, each at most once; the mask written
\* to ISR is the value read, so that a bit the device asserts after the read
\* stays set and is not cleared without having been dispatched.
C33_ReadDispatchClear ==
    /\ [](/\ \E n \in 0..3 :
               unit.wake.steps = SubSeq(<<"readISR", "dispatch", "clearISR">>, 1, n)
          /\ Len(unit.wake.steps) >= 2 =>
               /\ Called = Asserted(unit.wake.isr) \cap unit.h.callbacks
               /\ Len(unit.wake.called) = Cardinality(Called)
          /\ Len(unit.wake.steps) < 2 => unit.wake.called = <<>>
          /\ Len(unit.wake.steps) = 3 => unit.wake.mask = unit.wake.isr
          /\ unit.t_pc \in {"dispatch", "clear"} => unit.isr = unit.wake.isr)
    /\ [][ClearStep =>
             /\ unit'.wake.mask = unit.isr
             /\ (unit.real /\ unit.h.reg_base) =>
                   Asserted(unit'.dev.ISR) = Asserted(unit.dev.ISR) \ Asserted(unit.isr)
             /\ ~(unit.real /\ unit.h.reg_base) => unit'.dev = unit.dev]_vars

\* a wakeup has read DONE and ERROR from ISR, has called their two
\* callbacks and has cleared the two bits, while READY, which the device
\* asserted after the read, is still set
C33_Witness ==
    /\ unit.real /\ unit.h.reg_base
    /\ unit.wake.steps = <<"readISR", "dispatch", "clearISR">>
    /\ unit.wake.isr = 9
    /\ unit.wake.called = <<1, 8>>
    /\ unit.wake.mask = 9
    /\ unit.dev.ISR = 2

-----------------------------------------------------------------------------
(* C34 *)

\* the place of a step in the stop sequence
StopRank(step) ==
    CASE step = "running" -> 1
      [] step = "join" -> 2
      [] step = "GIE" -> 3
      [] step = "IER" -> 3
      [] step = "close" -> 4

\* C34: stop() clears running, then joins the service thread, then clears
\* IER and GIE, then closes the descriptor; after running is cleared the
\* service thread begins at most one more poll and terminates; once stop()
\* has returned no callback is called and ISR is neither read nor written;
\* a second stop() changes nothing.
C34_StopSequence ==
    /\ [](/\ \A i, j \in DOMAIN unit.stopSteps :
               i < j => /\ StopRank(unit.stopSteps[i]) <= StopRank(unit.stopSteps[j])
                        /\ unit.stopSteps[i] # unit.stopSteps[j]
          /\ (unit.caller_pc = "stop_hw" /\ unit.stopSteps # <<>>) =>
               unit.stopSteps = <<"running", "join">>
          /\ unit.caller_pc = "stop_hw" => ~unit.h.running /\ unit.t_pc \notin AlivePcs
          /\ unit.caller_pc = "stop_join" => unit.pollsSinceClear <= 1
          /\ unit.stopped =>
               /\ ~unit.h.running
               /\ unit.t_pc \in {"none", "joined"}
               /\ unit.alive = 0
               /\ unit.real => unit.h.uio_fd = -1
               /\ (unit.real /\ "GIE" \in { unit.stopSteps[k] : k \in DOMAIN unit.stopSteps }) =>
                     unit.dev.GIE = 0 /\ unit.dev.IER = 0)
    /\ [][/\ unit.stopped =>
               /\ unit'.wake = unit.wake
               /\ unit'.h.sim_counter = unit.h.sim_counter
               /\ Asserted(unit.dev.ISR) \subseteq Asserted(unit'.dev.ISR)
          /\ (unit.stopped /\ unit'.caller_pc # unit.caller_pc) =>
               /\ unit'.h = unit.h
               /\ unit'.dev = unit.dev
               /\ unit'.t_pc = unit.t_pc
               /\ unit'.stopSteps = <<>>]_vars
    /\ (unit.caller_pc = "stop_join" ~> unit.t_pc \in {"exited", "joined"})

\* stop() has returned in a REAL_HARDWARE build after the service thread had
\* handled an interrupt and had begun a poll after running was cleared: all
\* five steps were taken in order
C34_Witness ==
    /\ unit.stopped
    /\ unit.caller_pc = "idle"
    /\ unit.stopSteps = <<"running", "join", "GIE", "IER", "close">>
    /\ unit.wakeups = 1
    /\ unit.t_pc = "joined"

-----------------------------------------------------------------------------
(* C39 *)

\* C39: isRunning() is true only while a service thread is alive and at
\* most one service thread exists: start() when already running creates no
\* second thread, start() without a successful init() before it fails, and
\* a service thread that leaves its loop on a poll error does not leave
\* running set.
C39_RunningMeansAlive ==
    /\ unit.h.running => unit.t_pc \in AlivePcs /\ unit.alive = 1
    /\ unit.alive <= 1
    /\ unit.lastStart = "true" => unit.h.enabled
    /\ unit.t_pc = "exited" => ~unit.h.running

====
